---- MODULE Spec2Model ----
(***************************************************************************)
(* A model of the executive-assistant mail back end: the credential vault  *)
(* and the account manager, the IMAP helpers of assistant_functions.py,    *)
(* the four connectors and their REST / IMAP sessions, the spam detector,  *)
(* the OAuth2 authorization flow, the EmailManager and the learners of     *)
(* server/intelligence.                                                    *)
(*                                                                         *)
(* Each subsystem has its own specification (SpecAccounts, SpecImap, ...). *)
(* A specification moves the variables of its subsystem and leaves the     *)
(* others at their initial values.                                         *)
(***************************************************************************)
EXTENDS Integers, Sequences, FiniteSets, TLC

VARIABLES
    \* ---- CredentialVault / AccountManager -------------------------------
    keychain,           \* keyring: <<account_id, credential_type>> -> secret | None
    mem,                \* AccountManager.vault.accounts_metadata (in memory)
    disk,               \* accounts.json as last written by any vault instance
    active_connectors,  \* AccountManager.active_connectors: id -> instance | NoInst
    nextInst,           \* number of the next connector instance handed to a caller
    ret,                \* what the last AccountManager call returned (and saw before)
    calls,              \* number of calls made so far in this run
    \* ---- the mail store of one account (IMAP server or REST mailbox) ----
    box,                \* folder -> sequence of messages (position = sequence number)
    exists,             \* the folders / labels the store has
    uidnext,            \* folder -> the UID the next message appended to it gets
    server,             \* which provider the store is, and whether it matches
                        \* folder names ignoring case
    last,               \* the last mail operation: its arguments, its commands,
                        \* the store before it and what it returned
    \* ---- SpamDetector ---------------------------------------------------
    response,           \* what OllamaAdapter.generate does for the next email
    verdict,            \* what categorize_email returned for it
    \* ---- OAuth2Handler.start_authorization_flow -------------------------
    flow,               \* the call in progress: position, clock, what it returned
    callback,           \* OAuth2CallbackHandler.auth_code / auth_error
    listeners,          \* the TCPServer objects serving localhost:8888
    \* ---- EmailManager ---------------------------------------------------
    requests,           \* the operations in flight, one per request slot
    \* ---- PriorityEngine / ContextEngine ---------------------------------
    patterns,           \* PriorityEngine.patterns
    email,              \* the email handed to calculate_priority
    priority,           \* what calculate_priority returned
    context,            \* the context dict of analyze_email, with its action
    \* ---- the learners and their files -----------------------------------
    learned,            \* learner -> its in-memory state
    stored,             \* learner -> the state in its JSON file
    learn,              \* the last learner call
    \* ---- the CredentialVault instances of the connectors ----------------
    vaults,             \* account id -> the vault of the connector built for it
    kept,               \* the accounts stored and not deleted since
    \* ---- start_authorization_flow calls running side by side ------------
    attempts,           \* attempt -> its position, clock and outcome
    \* ---- the cached connectors across EmailManager runs -----------------
    sessions,           \* account id -> the state of its cached connector
    \* ---- PriorityHandler ------------------------------------------------
    handled             \* what process_priority_email did with the last email

acctVars == <<keychain, mem, disk, active_connectors, nextInst, ret>>

mailVars == <<box, exists, uidnext, server, last>>

spamVars == <<response, verdict>>

oauthVars == <<flow, callback, listeners>>

intelVars == <<patterns, email, priority, context>>

learnVars == <<learned, stored, learn>>

vaultVars == <<vaults, kept>>

\* the variables of the subsystems modelled after the learners
restVars == <<vaultVars, attempts, sessions, handled>>

None == "none"

\* the values of the subsystems a specification does not move
NoSpamDetector == response = None /\ verdict = None

NoOAuth == flow = None /\ callback = None /\ listeners = {}

NoRequests == requests = None

NoIntel == patterns = None /\ email = None /\ priority = None /\ context = None

NoLearners == learned = None /\ stored = None /\ learn = None

NoVaults == vaults = None /\ kept = None

NoAttempts == attempts = None

NoSessions == sessions = None

NoHandler == handled = None

NoRest == NoVaults /\ NoAttempts /\ NoSessions /\ NoHandler

\* none of the subsystems above is used
NoOthers == NoSpamDetector /\ NoOAuth /\ NoRequests /\ NoIntel /\ NoLearners /\ NoRest

(***************************************************************************)
(* Python list helpers                                                     *)
(***************************************************************************)
Range(s) == {s[i] : i \in 1..Len(s)}

InSeq(x, s) == x \in Range(s)

(***************************************************************************)
(* The mail store                                                          *)
(***************************************************************************)
\* the folder names the code uses: the inbox, the trash, the categories of
\* _categorize_email and the spam folder names of move_spam_to_folder
SpamAlternatives == <<"Junk", "[Gmail]/Spam", "Junk Email">>

Folders == {"INBOX", "Trash", "Spam", "Promotions", "Personal", "Archive", "archive"}
               \cup Range(SpamAlternatives)

\* a folder name with the case of its letters folded
CaseFold(f) == IF f = "Archive" THEN "archive" ELSE f

\* the most messages a mailbox starts with
MaxMsgs == 2

MsgIds == 1..MaxMsgs

NoLast == [op |-> None, dry_run |-> FALSE, optin |-> FALSE, cmds |-> {},
           error |-> FALSE, count |-> 0, target |-> None,
           permanent |-> FALSE, http |-> None, refreshes |-> 0, retries |-> 0,
           ids |-> <<>>, succeeded |-> <<>>, failed |-> <<>>, log |-> <<>>]

\* the store of a specification that makes no mail operation
NoMail ==
    /\ box = [f \in Folders |-> <<>>]
    /\ exists = {"INBOX"}
    /\ uidnext = [f \in Folders |-> 1]
    /\ server = [provider |-> None, ci |-> FALSE]
    /\ last = NoLast

\* the messages (by identity) held in any folder
MsgsIn(b) == UNION {{b[f][i].m : i \in 1..Len(b[f])} : f \in Folders}

(***************************************************************************)
(* CredentialVault                                                         *)
(***************************************************************************)
Accts == {"a1", "a2"}

\* dict order of accounts_metadata is taken to be the order of the ids
AcctOrder == <<"a1", "a2">>

PasswordProviders == {"yahoo", "comcast"}

OAuthProviders == {"gmail", "hotmail"}

Providers == PasswordProviders \cup OAuthProviders

Kinds == {"app_password", "oauth_access_token", "oauth_refresh_token"}

\* secret values a caller supplies: the app password and the OAuth client secret
Password == "pw"

ClientSecret == "cs"

NoMeta == [provider |-> None, credential_types |-> <<>>,
           additional_data |-> None, token_expiry |-> FALSE]

HasAccount(meta, id) == meta[id] # NoMeta

\* the state of one vault instance together with the two stores it writes
VaultState(kc, m, d) == [kc |-> kc, m |-> m, d |-> d]

\* store_credentials: keyring.set_password, then the metadata upsert and save.
\* `additional` is None when the caller passes no additional_data.
store_credentials(v, id, provider, kind, value, additional) ==
    LET old   == v.m[id]
        base  == IF old = NoMeta
                   THEN [NoMeta EXCEPT !.provider = provider]
                   ELSE old
        types == IF InSeq(kind, base.credential_types)
                   THEN base.credential_types
                   ELSE Append(base.credential_types, kind)
        new   == [base EXCEPT !.credential_types = types,
                              !.additional_data =
                                  IF additional # None THEN additional ELSE @]
        m2    == [v.m EXCEPT ![id] = new]
    IN  [kc |-> [v.kc EXCEPT ![<<id, kind>>] = value], m |-> m2, d |-> m2]

\* get_credentials: the keychain is read directly, the metadata is not consulted
get_credentials(kc, id, kind) == kc[<<id, kind>>]

\* delete_credentials: every listed kind is deleted from the keychain; a kind in
\* `failing` is one whose keyring.delete_password raises (logged and skipped);
\* the metadata entry is removed and saved in any case.
delete_credentials(v, id, failing) ==
    IF ~HasAccount(v.m, id)
    THEN [ok |-> FALSE, v |-> v]
    ELSE LET types == v.m[id].credential_types
             kc2   == [k \in DOMAIN v.kc |->
                         IF k[1] = id /\ InSeq(k[2], types) /\ k[2] \notin failing
                         THEN None ELSE v.kc[k]]
             m2    == [v.m EXCEPT ![id] = NoMeta]
         IN  [ok |-> TRUE, v |-> [kc |-> kc2, m |-> m2, d |-> m2]]

\* list_accounts: the ids of the metadata map
list_accounts(m) == {id \in Accts : HasAccount(m, id)}

\* update_oauth_tokens: both tokens are stored (provider and email empty), then the
\* expiry is written when the account is in this instance's metadata
update_oauth_tokens(v, id, access, refresh) ==
    LET v1 == store_credentials(v, id, "", "oauth_access_token", access, None)
        v2 == store_credentials(v1, id, "", "oauth_refresh_token", refresh, None)
        m3 == [v2.m EXCEPT ![id].token_expiry = TRUE]
    IN  [kc |-> v2.kc, m |-> m3, d |-> m3]

\* is_token_expired: fail-closed without metadata or expiry; otherwise the clock
\* decides (`clockSaysExpired`)
is_token_expired(m, id, clockSaysExpired) ==
    \/ ~HasAccount(m, id)
    \/ ~m[id].token_expiry
    \/ clockSaysExpired

(***************************************************************************)
(* Connectors as the AccountManager uses them: connect / disconnect /      *)
(* get_mailbox_stats.  A connector built by _get_connector owns a fresh    *)
(* CredentialVault, loaded from accounts.json when it is constructed.      *)
(***************************************************************************)
\* what the provider and the clock answer during one connect: whether the login
\* (or the profile request) is accepted, whether the clock finds the token expired,
\* whether the token endpoint grants a refresh, whether client.close() raises
Env == [login : BOOLEAN, expired : BOOLEAN, refresh : BOOLEAN, closeRaises : BOOLEAN]

\* the answers that can make a difference for a connector of class `cls`: an IMAP
\* variant only logs in; a REST variant is not asked for a refresh unless the
\* token counts as expired
EnvFor(cls) ==
    IF cls \in {"gmail", "hotmail"}
    THEN {e \in Env : e.refresh => e.expired}
    ELSE {e \in Env : ~e.expired /\ ~e.refresh /\ ~e.closeRaises}

\* the access / refresh token the authorization flow and a refresh return
Tok == "t1"

\* the kinds whose keyring.delete_password raises during one delete_credentials of
\* an account listing `types`: none, or one of the listed kinds
FailSets(types) == {{}} \cup {{k} : k \in Range(types)}

ConnResult(ok, kc, d) == [ok |-> ok, kc |-> kc, d |-> d]

\* YahooConnector.connect: the password was read from the keychain by
\* _get_connector; a login without password raises inside the try
YahooConnect(id, kc, d, env) ==
    ConnResult(get_credentials(kc, id, "app_password") # None /\ env.login, kc, d)

\* ComcastConnector.connect
ComcastConnect(id, kc, d, env) ==
    IF ~HasAccount(d, id) THEN ConnResult(FALSE, kc, d)
    ELSE IF d[id].provider # "comcast" THEN ConnResult(FALSE, kc, d)
    ELSE IF get_credentials(kc, id, "app_password") = None THEN ConnResult(FALSE, kc, d)
    ELSE ConnResult(env.login, kc, d)

\* GmailConnector._refresh_token / HotmailConnector._refresh_token
\* (the connector's vault holds the metadata it loaded from disk)
RefreshToken(id, kc, d, env) ==
    IF get_credentials(kc, id, "oauth_refresh_token") = None THEN ConnResult(FALSE, kc, d)
    ELSE IF d[id].additional_data = None THEN ConnResult(FALSE, kc, d)
    ELSE IF ~env.refresh THEN ConnResult(FALSE, kc, d)
    ELSE LET v == update_oauth_tokens(VaultState(kc, d, d), id, Tok, Tok)
         IN  ConnResult(TRUE, v.kc, v.d)

RestConnect(provider, id, kc, d, env) ==
    IF ~HasAccount(d, id) THEN ConnResult(FALSE, kc, d)
    ELSE IF d[id].provider # provider THEN ConnResult(FALSE, kc, d)
    ELSE LET r == IF is_token_expired(d, id, env.expired)
                  THEN RefreshToken(id, kc, d, env)
                  ELSE ConnResult(TRUE, kc, d)
         IN  IF ~r.ok THEN r
             ELSE IF get_credentials(r.kc, id, "oauth_access_token") = None
                  THEN ConnResult(FALSE, r.kc, r.d)
                  ELSE ConnResult(env.login, r.kc, r.d)

\* GmailConnector.connect
GmailConnect(id, kc, d, env) == RestConnect("gmail", id, kc, d, env)

\* HotmailConnector.connect
HotmailConnect(id, kc, d, env) == RestConnect("hotmail", id, kc, d, env)

Connect(cls, id, kc, d, env) ==
    CASE cls = "yahoo"   -> YahooConnect(id, kc, d, env)
      [] cls = "comcast" -> ComcastConnect(id, kc, d, env)
      [] cls = "gmail"   -> GmailConnect(id, kc, d, env)
      [] cls = "hotmail" -> HotmailConnect(id, kc, d, env)

\* disconnect: the IMAP variants swallow every exception of logout(); the REST
\* variants call client.close() unguarded, so whatever it raises reaches the caller
DisconnectRaises(cls, env) == cls \in OAuthProviders /\ env.closeRaises

(***************************************************************************)
(* AccountManager                                                          *)
(***************************************************************************)
\* the number of AccountManager calls in one run
MaxCalls == 3

Call ==
    /\ calls < MaxCalls
    /\ calls' = calls + 1
    /\ UNCHANGED <<mailVars, spamVars, oauthVars, requests, intelVars, learnVars, restVars>>

NoInst == [inst |-> 0, cls |-> None]

NoResults == [total |-> 0, successful |-> 0, failed |-> 0, entries |-> <<>>]

NoRet == [op |-> None, id |-> None, status |-> None, verified |-> None,
          inst |-> NoInst, cache |-> FALSE, hadAccount |-> FALSE,
          priorKinds |-> {}, priorCached |-> NoInst, configured |-> {},
          results |-> NoResults]

\* _get_connector raises ValueError for an unknown account or provider
GetConnectorRaises(m, id) == ~HasAccount(m, id) \/ m[id].provider \notin Providers

\* _get_connector: the connector class is chosen by the provider in the metadata
ConnectorClass(m, id) == m[id].provider

\* add_account_oauth.  `granted` is the outcome of start_authorization_flow.
AddAccountOAuth(id, provider, client_secret, granted) ==
    \E v1 \in {store_credentials(VaultState(keychain, mem, disk), id, provider,
                                 "oauth_access_token", Tok, client_secret)} :
    \E v2 \in {store_credentials(v1, id, provider, "oauth_refresh_token", Tok, None)} :
    \E v3 \in {update_oauth_tokens(v2, id, Tok, Tok)} :
    \E ok \in {(provider \in OAuthProviders) /\ granted} :
    \E v \in {IF ok THEN v3 ELSE VaultState(keychain, mem, disk)} :
        /\ Call
        /\ keychain' = v.kc
        /\ mem' = v.m
        /\ disk' = v.d
        /\ ret' = [NoRet EXCEPT !.op = "add_account_oauth", !.id = id,
                                !.status = IF ok THEN "success" ELSE "error",
                                !.hadAccount = HasAccount(mem, id)]
        /\ UNCHANGED <<active_connectors, nextInst>>

\* add_account_password.  `env` is what the provider answers during the connection
\* test, `failing` the kinds whose keychain deletion raises during the rollback.
\* (provider "apple" is accepted by the code as well; its connector is not part
\* of the sources, so no request for it is drawn.)
AddAccountPassword(id, provider, app_password, env, failing) ==
    \E v1 \in {store_credentials(VaultState(keychain, mem, disk), id, provider,
                                 "app_password", app_password, None)} :
    \E c \in {Connect(ConnectorClass(v1.m, id), id, v1.kc, v1.d, env)} :
    \E del \in {delete_credentials(VaultState(c.kc, v1.m, c.d), id, failing)} :
    \E how \in {IF provider \notin PasswordProviders THEN "unsupported"
                ELSE IF GetConnectorRaises(v1.m, id) THEN "raised_before_connect"
                ELSE IF DisconnectRaises(ConnectorClass(v1.m, id), env) THEN "raised"
                ELSE IF ~c.ok THEN "failed"
                ELSE "ok"} :
    \E v \in {CASE how = "unsupported" -> VaultState(keychain, mem, disk)
                [] how = "raised_before_connect" -> v1
                [] how = "raised" -> VaultState(c.kc, v1.m, c.d)
                [] how = "failed" -> del.v
                [] how = "ok" -> VaultState(c.kc, v1.m, c.d)} :
        /\ Call
        /\ keychain' = v.kc
        /\ mem' = v.m
        /\ disk' = v.d
        /\ ret' = [NoRet EXCEPT !.op = "add_account_password", !.id = id,
                                !.status = IF how = "ok" THEN "success" ELSE "error",
                                !.verified = how,
                                !.hadAccount = HasAccount(mem, id)]
        /\ UNCHANGED <<active_connectors, nextInst>>

\* remove_account.  The cached connector, if any, is disconnected and evicted
\* first; an exception of disconnect() ends the call in the except branch.
RemoveAccount(id, failing, env) ==
    \E raised \in {(active_connectors[id] # NoInst)
                   /\ DisconnectRaises(active_connectors[id].cls, env)} :
    \E del \in {delete_credentials(VaultState(keychain, mem, disk), id, failing)} :
    \E v \in {IF raised THEN VaultState(keychain, mem, disk) ELSE del.v} :
        /\ Call
        /\ keychain' = v.kc
        /\ mem' = v.m
        /\ disk' = v.d
        /\ active_connectors' = IF raised THEN active_connectors
                                ELSE [active_connectors EXCEPT ![id] = NoInst]
        /\ ret' = [NoRet EXCEPT !.op = "remove_account", !.id = id,
                                !.status = IF ~raised /\ del.ok THEN "success" ELSE "error",
                                !.hadAccount = HasAccount(mem, id),
                                !.priorKinds = Range(mem[id].credential_types),
                                !.priorCached = active_connectors[id]]
        /\ UNCHANGED nextInst

\* mutant of get_connector: the cache is written but never read
GetConnector_never_reuses(id, cache) ==
    LET raises == GetConnectorRaises(mem, id)
        built  == [inst |-> nextInst, cls |-> ConnectorClass(mem, id)]
    IN  /\ Call
        /\ active_connectors' = IF ~raises /\ cache
                                THEN [active_connectors EXCEPT ![id] = built]
                                ELSE active_connectors
        /\ nextInst' = IF raises THEN nextInst ELSE nextInst + 1
        /\ ret' = [NoRet EXCEPT !.op = "get_connector", !.id = id,
                                !.status = IF raises THEN "raised" ELSE "success",
                                !.inst = IF raises THEN NoInst ELSE built,
                                !.cache = cache,
                                !.hadAccount = HasAccount(mem, id),
                                !.priorCached = active_connectors[id]]
        /\ UNCHANGED <<keychain, mem, disk>>

\* get_connector(account_id, cache)
GetConnector(id, cache) ==
    LET hit    == cache /\ active_connectors[id] # NoInst
        raises == ~hit /\ GetConnectorRaises(mem, id)
        built  == [inst |-> nextInst, cls |-> ConnectorClass(mem, id)]
        out    == IF hit THEN active_connectors[id]
                  ELSE IF raises THEN NoInst ELSE built
    IN  /\ Call
        /\ active_connectors' = IF ~hit /\ ~raises /\ cache
                                THEN [active_connectors EXCEPT ![id] = built]
                                ELSE active_connectors
        /\ nextInst' = IF hit \/ raises THEN nextInst ELSE nextInst + 1
        /\ ret' = [NoRet EXCEPT !.op = "get_connector", !.id = id,
                                !.status = IF raises THEN "raised" ELSE "success",
                                !.inst = out, !.cache = cache,
                                !.hadAccount = HasAccount(mem, id),
                                !.priorCached = active_connectors[id]]
        /\ UNCHANGED <<keychain, mem, disk>>

\* one iteration of the loop of test_all_accounts once connect() has returned `c`
\* for a connector of class `cls`: st = [kc, d, results]
TestConnected(st, id, env, cls, c) ==
    [kc |-> c.kc, d |-> c.d,
     results |->
        IF c.ok
        THEN \* successful is counted before get_mailbox_stats and disconnect run
             \* inside the same try block
             IF DisconnectRaises(cls, env)
             THEN [st.results EXCEPT
                      !.successful = @ + 1, !.failed = @ + 1,
                      !.entries = Append(@, [account_id |-> id, status |-> "error"])]
             ELSE [st.results EXCEPT
                      !.successful = @ + 1,
                      !.entries = Append(@, [account_id |-> id, status |-> "connected"])]
        ELSE [st.results EXCEPT
                 !.failed = @ + 1,
                 !.entries = Append(@, [account_id |-> id, status |-> "failed"])]]

\* one iteration of the loop of test_all_accounts, for account `id`
TestOneAccount(st, id, env) ==
    IF GetConnectorRaises(mem, id)
    THEN [st EXCEPT !.results = [@ EXCEPT
             !.failed = @ + 1,
             !.entries = Append(@, [account_id |-> id, status |-> "error"])]]
    ELSE TestConnected(st, id, env, ConnectorClass(mem, id),
                       Connect(ConnectorClass(mem, id), id, st.kc, st.d, env))

RECURSIVE TestLoop(_, _, _)
TestLoop(i, st, envs) ==
    IF i > Len(AcctOrder) THEN st
    ELSE LET id == AcctOrder[i]
         IN  IF HasAccount(mem, id)
             THEN TestLoop(i + 1, TestOneAccount(st, id, envs[id]), envs)
             ELSE TestLoop(i + 1, st, envs)

\* test_all_accounts
TestAllAccounts(envs) ==
    \E end \in {TestLoop(1, [kc |-> keychain, d |-> disk,
                             results |-> [NoResults EXCEPT
                                 !.total = Cardinality(list_accounts(mem))]], envs)} :
        /\ Call
        /\ keychain' = end.kc
        /\ disk' = end.d
        /\ ret' = [NoRet EXCEPT !.op = "test_all_accounts", !.status = "success",
                                !.configured = list_accounts(mem),
                                !.results = end.results]
        /\ UNCHANGED <<mem, active_connectors, nextInst>>

(***************************************************************************)
(* Specification of the vault and the account manager                      *)
(***************************************************************************)
NoAccounts ==
    /\ keychain = [k \in Accts \X Kinds |-> None]
    /\ mem = [id \in Accts |-> NoMeta]
    /\ disk = [id \in Accts |-> NoMeta]
    /\ active_connectors = [id \in Accts |-> NoInst]
    /\ nextInst = 1
    /\ ret = NoRet

InitAccounts == NoAccounts /\ calls = 0 /\ NoMail /\ NoOthers

\* the connector class add_account_password will test: the provider already in
\* the metadata, or the requested one for a new account
TestedClass(id, provider) == IF HasAccount(mem, id) THEN mem[id].provider ELSE provider

CachedClass(id) == active_connectors[id].cls

NextAccounts ==
    \/ \E id \in Accts, provider \in {"gmail", "yahoo"}, granted \in BOOLEAN :
          AddAccountOAuth(id, provider, ClientSecret, granted)
    \/ \E id \in Accts, provider \in {"yahoo", "comcast", "gmail"},
          app_password \in {Password} :
          \E env \in EnvFor(TestedClass(id, provider)),
             failing \in FailSets(Append(mem[id].credential_types, "app_password")) :
              AddAccountPassword(id, provider, app_password, env, failing)
    \/ \E id \in Accts :
          \E failing \in FailSets(mem[id].credential_types),
             env \in EnvFor(CachedClass(id)) : RemoveAccount(id, failing, env)
    \/ \E id \in Accts, cache \in BOOLEAN : GetConnector(id, cache)
    \/ \E envs \in [Accts -> Env] :
          /\ \A id \in Accts : envs[id] \in EnvFor(mem[id].provider)
          /\ TestAllAccounts(envs)

vars == <<keychain, mem, disk, active_connectors, nextInst, ret, calls,
          box, exists, uidnext, server, last, response, verdict,
          flow, callback, listeners, requests, patterns, email, priority, context,
          learned, stored, learn, vaults, kept, attempts,
          sessions, handled>>

SpecAccounts == InitAccounts /\ [][NextAccounts]_vars

(***************************************************************************)
(* Claims about the vault and the account manager (under SpecAccounts)     *)
(***************************************************************************)

\* C1: for an account present in the vault, once remove_account(id) has returned,
\* list_accounts() does not contain id and get(id, kind) is absent for every kind
\* the account listed before the call -- also when a secret deletion fails.
C1_RemoveAccountPurges ==
    (ret.op = "remove_account" /\ ret.hadAccount) =>
        /\ ret.id \notin list_accounts(mem)
        /\ \A k \in ret.priorKinds : get_credentials(keychain, ret.id, k) = None

\* C2: whenever the connection test of add_account_password does not succeed
\* (connect returns false, or the test ends in an exception), the call returns an
\* error and the app_password it stored is no longer retrievable.
C2_FailedVerificationRollsBack ==
    (ret.op = "add_account_password"
       /\ ret.verified \in {"failed", "raised", "raised_before_connect"}) =>
        /\ ret.status = "error"
        /\ get_credentials(keychain, ret.id, "app_password") = None

\* C8: get_connector(id, cache=true) returns the cached instance whenever there is
\* one and caches the one it builds, and a cache entry changes only when
\* remove_account evicts it; get_connector(id, cache=false) returns an instance
\* built by this call, which is not in the cache before or after the call.
C8_Step(id) ==
    /\ (ret'.op = "get_connector" /\ ret'.id = id /\ ret'.cache
          /\ active_connectors[id] # NoInst) =>
            /\ ret'.inst = active_connectors[id]
            /\ nextInst' = nextInst
    /\ (ret'.op = "get_connector" /\ ret'.id = id /\ ret'.cache
          /\ ret'.status = "success") =>
            active_connectors'[id] = ret'.inst
    /\ (active_connectors[id] # NoInst
          /\ active_connectors'[id] # active_connectors[id]) =>
            /\ ret'.op = "remove_account" /\ ret'.id = id
            /\ active_connectors'[id] = NoInst
    /\ (ret'.op = "get_connector" /\ ret'.id = id /\ ~ret'.cache
          /\ ret'.status = "success") =>
            /\ ret'.inst.inst = nextInst /\ nextInst' = nextInst + 1
            /\ active_connectors' = active_connectors
            /\ \A j \in Accts : active_connectors[j].inst < nextInst

C8_ConnectorCache == [][\A id \in Accts : C8_Step(id)]_vars

\* C8 witness: a get_connector(cache=true) that was served from the cache
C8_Witness ==
    /\ ret.op = "get_connector" /\ ret.cache
    /\ ret.priorCached # NoInst
    /\ ret.inst = ret.priorCached

\* C9: the result of test_all_accounts has one entry per configured account and
\* total = successful + failed = the number of configured accounts.
C9_TallyAddsUp ==
    ret.op = "test_all_accounts" =>
        /\ ret.results.total = Cardinality(ret.configured)
        /\ ret.results.total = ret.results.successful + ret.results.failed
        /\ Len(ret.results.entries) = ret.results.total
        /\ \A id \in ret.configured :
              Cardinality({i \in 1..Len(ret.results.entries) :
                              ret.results.entries[i].account_id = id}) = 1


(***************************************************************************)
(* An imaplib session (assistant_functions.py).  A session is a record:    *)
(* the store it acts on (box, exists, uidnext), the selected folder (None  *)
(* in the AUTH state), the mutating commands sent so far, and what the     *)
(* function is about to return (raised, count, ok, target).  The          *)
(* connectors use the same record: ci and http are the answers of the      *)
(* provider, done and errs the two result lists of a multi-id operation,   *)
(* refreshes and retries the calls of _refresh_token and the requests sent *)
(* a second time (no operation of the connectors makes either).  log is    *)
(* the STORE and EXPUNGE commands of the session in the order it sent them. *)
(***************************************************************************)
EMAIL_BATCH_SIZE == 100

\* bulk_delete_emails' batch_size, scaled down to the mailboxes of the model
BatchSize == 1

Session(b, e, u) ==
    [box |-> b, exists |-> e, uidnext |-> u, sel |-> None, cmds |-> {},
     raised |-> FALSE, count |-> 0, ok |-> TRUE, target |-> None,
     ci |-> FALSE, http |-> None, refreshes |-> 0, retries |-> 0,
     done |-> <<>>, errs |-> <<>>, log |-> <<>>]

\* a later _connect_imap of the same operation: a new connection, same store
Reconnect(S) == [S EXCEPT !.sel = None, !.raised = FALSE, !.count = 0]

InRange(S, n) == S.sel # None /\ n \in 1..Len(S.box[S.sel])

\* the folder of the store a name denotes, or None
FolderFor(S, f) ==
    IF f \in S.exists THEN f
    ELSE IF S.ci /\ \E e \in S.exists : CaseFold(e) = CaseFold(f)
         THEN CHOOSE e \in S.exists : CaseFold(e) = CaseFold(f)
         ELSE None

\* M.select(folder): OK selects it, NO leaves the session in the AUTH state
imap_select(S, f) == [S EXCEPT !.sel = FolderFor(S, f)]

Matches(msg, crit) == crit = "ALL" \/ (crit = "BEFORE" /\ msg.old)

\* M.search(None, crit): the sequence numbers of the matching messages
imap_search(S, crit) ==
    SelectSeq([i \in 1..Len(S.box[S.sel]) |-> i],
              LAMBDA i : Matches(S.box[S.sel][i], crit))

\* uids[-int(max_messages):]
LastN(s, n) == IF Len(s) <= n THEN s ELSE SubSeq(s, Len(s) - n + 1, Len(s))

\* M.fetch(n, "(RFC822)"): a fetch of the body sets \Seen
imap_fetch(S, n) ==
    IF InRange(S, n) THEN [S EXCEPT !.box[S.sel][n].seen = TRUE] ELSE S

\* M.store(n, '+FLAGS', '\\Deleted')
imap_store_deleted(S, n) ==
    IF InRange(S, n)
    THEN [S EXCEPT !.box[S.sel][n].deleted = TRUE, !.cmds = @ \cup {"STORE"},
                   !.log = Append(@, "STORE")]
    ELSE [S EXCEPT !.cmds = @ \cup {"STORE"}, !.log = Append(@, "STORE")]

CopyOK(S, n, f) == InRange(S, n) /\ FolderFor(S, f) # None

\* M.copy(n, folder): NO when the folder does not exist
imap_copy(S, n, f) ==
    IF CopyOK(S, n, f)
    THEN [S EXCEPT !.box[FolderFor(S, f)] =
                       Append(@, [S.box[S.sel][n] EXCEPT !.uid = S.uidnext[FolderFor(S, f)]]),
                   !.uidnext[FolderFor(S, f)] = @ + 1,
                   !.cmds = @ \cup {"COPY"}]
    ELSE [S EXCEPT !.cmds = @ \cup {"COPY"}]

\* M.expunge(): every \Deleted message of the selected folder is removed
imap_expunge(S) ==
    IF S.sel = None
    THEN [S EXCEPT !.cmds = @ \cup {"EXPUNGE"}, !.log = Append(@, "EXPUNGE")]
    ELSE [S EXCEPT !.box[S.sel] = SelectSeq(@, LAMBDA x : ~x.deleted),
                   !.cmds = @ \cup {"EXPUNGE"}, !.log = Append(@, "EXPUNGE")]

\* M.create(folder): NO when it exists or when the server refuses the name
imap_create(S, f, refused) ==
    IF FolderFor(S, f) # None \/ f \in refused
    THEN [S EXCEPT !.cmds = @ \cup {"CREATE"}]
    ELSE [S EXCEPT !.exists = @ \cup {f}, !.cmds = @ \cup {"CREATE"}]

\* the sequence number of the message of the selected folder with this UID, or 0
SeqOfUid(S, u) ==
    IF S.sel # None /\ \E i \in 1..Len(S.box[S.sel]) : S.box[S.sel][i].uid = u
    THEN CHOOSE i \in 1..Len(S.box[S.sel]) : S.box[S.sel][i].uid = u
    ELSE 0

IsSpamAt(S, n) == InRange(S, n) /\ S.box[S.sel][n].cat = "Spam"

\* _ensure_folder_exists: SELECT the folder to see whether it exists, CREATE it
\* when that fails, and go back to INBOX unless the CREATE failed
ensure_folder_exists(S, name, refused) ==
    IF FolderFor(S, name) # None
    THEN [imap_select(S, "INBOX") EXCEPT !.ok = TRUE]
    ELSE IF name \in refused
         THEN [imap_create(imap_select(S, name), name, refused) EXCEPT !.ok = FALSE]
         ELSE [imap_select(imap_create(S, name, refused), "INBOX") EXCEPT !.ok = TRUE]

\* _move_email_to_folder: UID COPY then UID STORE.  A UID no message has is
\* ignored by the server without an error.
move_email_to_folder(S, u, f) ==
    IF FolderFor(S, f) = None \/ S.sel = None
    THEN [S EXCEPT !.cmds = @ \cup {"COPY"}, !.ok = FALSE]
    ELSE IF SeqOfUid(S, u) = 0
         THEN [S EXCEPT !.cmds = @ \cup {"COPY", "STORE"}, !.ok = TRUE,
                        !.log = Append(@, "STORE")]
         ELSE [imap_store_deleted(imap_copy(S, SeqOfUid(S, u), f), SeqOfUid(S, u))
                  EXCEPT !.ok = TRUE]

\* ---- detect_spam ---------------------------------------------------------
detect_one(S, n, del) ==
    IF IsSpamAt(S, n)
    THEN [(IF del THEN imap_store_deleted(imap_fetch(S, n), n) ELSE imap_fetch(S, n))
             EXCEPT !.count = @ + 1]
    ELSE imap_fetch(S, n)

RECURSIVE detect_loop(_, _, _, _)
detect_loop(S, ids, i, del) ==
    IF i > Len(ids) THEN S ELSE detect_loop(detect_one(S, ids[i], del), ids, i + 1, del)

detect_scan(S, max_messages, del) ==
    detect_loop(S, LastN(imap_search(S, "ALL"), max_messages), 1, del)

\* detect_spam without the "and not dry_run" of its two guards
detect_spam_ignores_dry_run(S0, max_messages, delete, dry_run) ==
    IF delete
    THEN imap_expunge(detect_scan(imap_select(S0, "INBOX"), max_messages, TRUE))
    ELSE detect_scan(imap_select(S0, "INBOX"), max_messages, FALSE)

detect_spam(S0, max_messages, delete, dry_run) ==
    IF delete /\ ~dry_run
    THEN imap_expunge(detect_scan(imap_select(S0, "INBOX"), max_messages, TRUE))
    ELSE detect_scan(imap_select(S0, "INBOX"), max_messages, FALSE)

\* ---- categorize_emails ---------------------------------------------------
categorize_move(S, n, refused) ==
    imap_store_deleted(
        imap_copy(imap_create(S, S.box[S.sel][n].cat, refused), n, S.box[S.sel][n].cat), n)

categorize_one(S, n, dry_run, refused) ==
    IF dry_run THEN [imap_fetch(S, n) EXCEPT !.count = @ + 1]
    ELSE [categorize_move(imap_fetch(S, n), n, refused) EXCEPT !.count = @ + 1]

RECURSIVE categorize_loop(_, _, _, _, _)
categorize_loop(S, ids, i, dry_run, refused) ==
    IF i > Len(ids) THEN S
    ELSE categorize_loop(categorize_one(S, ids[i], dry_run, refused), ids, i + 1,
                         dry_run, refused)

categorize_scan(S, max_messages, dry_run, refused) ==
    categorize_loop(S, LastN(imap_search(S, "ALL"), max_messages), 1, dry_run, refused)

categorize_emails(S0, max_messages, dry_run, refused) ==
    IF dry_run
    THEN categorize_scan(imap_select(S0, "INBOX"), max_messages, TRUE, refused)
    ELSE imap_expunge(categorize_scan(imap_select(S0, "INBOX"), max_messages, FALSE, refused))


\* ---- bulk_delete_emails --------------------------------------------------
\* M.store on a sequence number the folder no longer has: the server answers NO
\* (ignored by the code) or, when it is strict, BAD (imaplib raises)
bulk_store(S, n, strict) ==
    IF ~InRange(S, n) /\ strict
    THEN [S EXCEPT !.cmds = @ \cup {"STORE"}, !.raised = TRUE,
                   !.log = Append(@, "STORE")]
    ELSE [imap_store_deleted(S, n) EXCEPT !.count = @ + 1]

RECURSIVE bulk_batch(_, _, _, _, _)
bulk_batch(S, ids, i, j, strict) ==
    IF S.raised THEN S
    ELSE IF i > j THEN imap_expunge(S)
    ELSE bulk_batch(bulk_store(S, ids[i], strict), ids, i + 1, j, strict)

BatchEnd(ids, i) == IF i + BatchSize - 1 < Len(ids) THEN i + BatchSize - 1 ELSE Len(ids)

RECURSIVE bulk_batches(_, _, _, _)
bulk_batches(S, ids, i, strict) ==
    IF i > Len(ids) \/ S.raised THEN S
    ELSE bulk_batches(bulk_batch(S, ids, i, BatchEnd(ids, i), strict), ids,
                      i + BatchSize, strict)

bulk_selected(S, crit, dry_run, strict) ==
    IF S.sel = None THEN [S EXCEPT !.raised = TRUE]
    ELSE IF dry_run THEN [S EXCEPT !.count = Len(imap_search(S, crit))]
    ELSE bulk_batches(S, imap_search(S, crit), 1, strict)

bulk_delete_emails(S0, folder, crit, dry_run, strict) ==
    bulk_selected(imap_select(S0, folder), crit, dry_run, strict)

\* ---- move_spam_to_folder -------------------------------------------------
RECURSIVE ensure_alternative(_, _, _)
ensure_alternative(S, i, refused) ==
    IF i > Len(SpamAlternatives) THEN [S EXCEPT !.target = "Spam"]
    ELSE IF ensure_folder_exists(S, SpamAlternatives[i], refused).ok
         THEN [ensure_folder_exists(S, SpamAlternatives[i], refused)
                  EXCEPT !.target = SpamAlternatives[i]]
         ELSE ensure_alternative(ensure_folder_exists(S, SpamAlternatives[i], refused),
                                 i + 1, refused)

ensure_spam_folder(S, refused) ==
    IF ensure_folder_exists(S, "Spam", refused).ok
    THEN [ensure_folder_exists(S, "Spam", refused) EXCEPT !.target = "Spam"]
    ELSE ensure_alternative(ensure_folder_exists(S, "Spam", refused), 1, refused)

\* the spam counter is .count; moved_count > 0 is recorded in .ok at the end
move_one(S, n, dry_run, moved) ==
    IF ~IsSpamAt(S, n) THEN [imap_fetch(S, n) EXCEPT !.ok = moved]
    ELSE IF dry_run THEN [imap_fetch(S, n) EXCEPT !.count = @ + 1, !.ok = moved]
    ELSE [move_email_to_folder(imap_fetch(S, n), n, S.target)
             EXCEPT !.count = @ + 1,
                    !.ok = moved \/ move_email_to_folder(imap_fetch(S, n), n, S.target).ok]

RECURSIVE move_loop(_, _, _, _)
move_loop(S, ids, i, dry_run) ==
    IF i > Len(ids) THEN S
    ELSE move_loop(move_one(S, ids[i], dry_run, S.ok), ids, i + 1, dry_run)

move_scan(S, max_messages, dry_run) ==
    IF S.sel = None THEN [S EXCEPT !.raised = TRUE]
    ELSE move_loop([S EXCEPT !.ok = FALSE],
                   LastN(imap_search(S, "ALL"), max_messages), 1, dry_run)

move_finish(S, dry_run) ==
    IF ~dry_run /\ ~S.raised /\ S.ok THEN imap_expunge(S) ELSE S

move_spam_to_folder(S0, max_messages, dry_run, refused) ==
    IF dry_run
    THEN move_scan([imap_select(S0, "INBOX") EXCEPT !.target = "Spam"], max_messages, TRUE)
    ELSE move_finish(move_scan(ensure_spam_folder(imap_select(S0, "INBOX"), refused),
                               max_messages, FALSE), FALSE)

\* ---- cleanup_inbox -------------------------------------------------------
\* the search of step 3 is BEFORE <today - OLD_PROMOTIONS_DAYS> in Promotions
cleanup_inbox(S0, dry_run, refused, strict) ==
    bulk_delete_emails(
        Reconnect(categorize_emails(
            Reconnect(detect_spam(S0, 200, TRUE, dry_run)),
            EMAIL_BATCH_SIZE, dry_run, refused)),
        "Promotions", "BEFORE", dry_run, strict)


(***************************************************************************)
(* The email functions and intent handlers as operations on the store      *)
(***************************************************************************)
\* the number of mail operations in one run
MaxMailCalls == 2

CanCall == calls < MaxMailCalls

MailCall ==
    /\ CanCall
    /\ calls' = calls + 1
    /\ UNCHANGED <<acctVars, spamVars, oauthVars, requests, intelVars, learnVars, restVars>>

\* a boolean keyword argument: left out by the caller, or given
Opt == {"omitted", "true", "false"}

Arg(x, default) == IF x = "omitted" THEN default ELSE x = "true"

\* the answers of the server that differ between servers: the folder names it
\* refuses to create, and whether it answers BAD to a stale sequence number
RefuseSets == {{}, {"Spam"}, Folders}

MaxMessages == {1, EMAIL_BATCH_SIZE}

Returned(op, dry_run, optin, S) ==
    [NoLast EXCEPT !.op = op, !.dry_run = dry_run, !.optin = optin,
                   !.cmds = S.cmds, !.error = S.raised, !.count = S.count,
                   !.target = S.target, !.http = S.http,
                   !.refreshes = S.refreshes, !.retries = S.retries,
                   !.succeeded = S.done, !.failed = S.errs, !.log = S.log]

ImapOp(op, dry_run, optin, S) ==
    /\ MailCall
    /\ box' = S.box
    /\ exists' = S.exists
    /\ uidnext' = S.uidnext
    /\ server' = server
    /\ last' = Returned(op, dry_run, optin, S)

Connected == [Session(box, exists, uidnext) EXCEPT !.ci = server.ci]

DetectSpam(max_messages, delete, dry_run) ==
    /\ CanCall
    /\ \E S \in {detect_spam(Connected, max_messages, Arg(delete, FALSE), Arg(dry_run, TRUE))} :
          ImapOp("detect_spam", Arg(dry_run, TRUE),
                 delete # "omitted" \/ dry_run # "omitted", S)

CategorizeEmails(max_messages, dry_run, refused) ==
    /\ CanCall
    /\ \E S \in {categorize_emails(Connected, max_messages, Arg(dry_run, TRUE), refused)} :
          ImapOp("categorize_emails", Arg(dry_run, TRUE), dry_run # "omitted", S)

BulkDeleteEmails(folder, crit, dry_run, strict) ==
    /\ CanCall
    /\ \E S \in {bulk_delete_emails(Connected, folder, crit, Arg(dry_run, TRUE), strict)} :
          ImapOp("bulk_delete_emails", Arg(dry_run, TRUE), dry_run # "omitted", S)

MoveSpamToFolder(max_messages, dry_run, refused) ==
    /\ CanCall
    /\ \E S \in {move_spam_to_folder(Connected, max_messages, Arg(dry_run, FALSE), refused)} :
          ImapOp("move_spam_to_folder", Arg(dry_run, FALSE), dry_run # "omitted", S)

CleanupInbox(dry_run, refused, strict) ==
    /\ CanCall
    /\ \E S \in {cleanup_inbox(Connected, Arg(dry_run, TRUE), refused, strict)} :
          ImapOp("cleanup_inbox", Arg(dry_run, TRUE), dry_run # "omitted", S)

\* handle_delete_spam(params): dry_run = params.get("dry_run", False)
HandleDeleteSpam(max_messages, dry_run, refused) ==
    /\ CanCall
    /\ \E S \in {move_spam_to_folder(Connected, max_messages, Arg(dry_run, FALSE), refused)} :
          ImapOp("handle_delete_spam", Arg(dry_run, FALSE), dry_run # "omitted", S)

HandleCategorizeEmails(dry_run, refused) ==
    /\ CanCall
    /\ \E S \in {categorize_emails(Connected, EMAIL_BATCH_SIZE, Arg(dry_run, FALSE), refused)} :
          ImapOp("handle_categorize_emails", Arg(dry_run, FALSE), dry_run # "omitted", S)

HandleCleanupEmails(dry_run, refused, strict) ==
    /\ CanCall
    /\ \E S \in {cleanup_inbox(Connected, Arg(dry_run, FALSE), refused, strict)} :
          ImapOp("handle_cleanup_emails", Arg(dry_run, FALSE), dry_run # "omitted", S)

\* what a message is to the code: its category (_categorize_email; Work and
\* Social behave as Personal) and whether it is older than the cutoff
MsgKinds == {[cat |-> "Spam", old |-> FALSE], [cat |-> "Promotions", old |-> TRUE],
             [cat |-> "Personal", old |-> FALSE]}

Message(i, kind, shift, flagged) ==
    [m |-> i, cat |-> kind.cat, old |-> kind.old, uid |-> i + shift,
     deleted |-> flagged, seen |-> FALSE]

\* an inbox of n unread messages whose UIDs are the sequence numbers (shift 0)
\* or, after earlier expunges, larger (shift 1)
InitImap ==
    /\ NoAccounts
    /\ NoOthers
    /\ calls = 0
    /\ \E n \in 0..MaxMsgs, shift \in {0, 1} :
         \E kinds \in [1..n -> MsgKinds] :
            /\ box = [f \in Folders |->
                        IF f = "INBOX"
                        THEN [i \in 1..n |-> Message(i, kinds[i], shift, FALSE)]
                        ELSE <<>>]
            /\ uidnext = [f \in Folders |-> IF f = "INBOX" THEN n + shift + 1 ELSE 1]
    /\ exists = {"INBOX", "Trash"}
    /\ server = [provider |-> "imap", ci |-> FALSE]
    /\ last = NoLast

NextImap ==
    \/ \E max_messages \in MaxMessages, delete \in Opt, dry_run \in Opt :
          DetectSpam(max_messages, delete, dry_run)
    \/ \E max_messages \in MaxMessages, dry_run \in Opt, refused \in RefuseSets :
          CategorizeEmails(max_messages, dry_run, refused)
    \/ \E folder \in {"INBOX", "Promotions"}, crit \in {"ALL", "BEFORE"},
          dry_run \in Opt, strict \in BOOLEAN :
          BulkDeleteEmails(folder, crit, dry_run, strict)
    \/ \E max_messages \in MaxMessages, dry_run \in Opt, refused \in RefuseSets :
          MoveSpamToFolder(max_messages, dry_run, refused)
    \/ \E dry_run \in Opt, refused \in RefuseSets, strict \in BOOLEAN :
          CleanupInbox(dry_run, refused, strict)
    \/ \E max_messages \in MaxMessages, dry_run \in Opt, refused \in RefuseSets :
          HandleDeleteSpam(max_messages, dry_run, refused)
    \/ \E dry_run \in Opt, refused \in RefuseSets : HandleCategorizeEmails(dry_run, refused)
    \/ \E dry_run \in Opt, refused \in RefuseSets, strict \in BOOLEAN :
          HandleCleanupEmails(dry_run, refused, strict)

SpecImap == InitImap /\ [][NextImap]_vars

(***************************************************************************)
(* Claims about the email functions (under SpecImap)                       *)
(***************************************************************************)
DryRunOps == {"bulk_delete_emails", "categorize_emails", "detect_spam",
              "move_spam_to_folder", "cleanup_inbox"}

\* C3: a call of bulk_delete_emails, categorize_emails, detect_spam,
\* move_spam_to_folder or cleanup_inbox with dry_run true sends no STORE, COPY,
\* EXPUNGE or CREATE, and leaves the set of folders and the number of messages
\* of every folder as they were.
C3_Step ==
    (last'.op \in DryRunOps /\ last'.dry_run) =>
        /\ last'.cmds \cap {"STORE", "COPY", "EXPUNGE", "CREATE"} = {}
        /\ exists' = exists
        /\ \A f \in Folders : Len(box'[f]) = Len(box[f])

C3_DryRunIsReadOnly == [][C3_Step]_vars

\* C3 witness: a dry run of cleanup_inbox that found spam in the inbox
C3_Witness ==
    /\ last.op = "cleanup_inbox" /\ last.dry_run
    /\ \E i \in 1..Len(box["INBOX"]) :
          box["INBOX"][i].cat = "Spam" /\ box["INBOX"][i].seen

\* C5: an email operation invoked without an explicit opt-in (no dry_run and no
\* delete argument given) removes no message for good: every message the store
\* held before the call is still in one of its folders afterwards.
C5_Step == (last'.op # None /\ ~last'.optin) => MsgsIn(box) \subseteq MsgsIn(box')

C5_DefaultsAreReversible == [][C5_Step]_vars


(***************************************************************************)
(* The connectors: YahooConnector (imaplib, message sequence numbers),     *)
(* ComcastConnector (IMAPClient, UIDs), GmailConnector and                 *)
(* HotmailConnector (REST, message ids)                                    *)
(***************************************************************************)
\* the ids a caller passes; "x" is not a number
IdStrings == {"1", "2", "x"}

\* int(msg_id); -1 stands for the ValueError
int(id) == CASE id = "1" -> 1 [] id = "2" -> 2 [] OTHER -> -1

\* the most ids in one call
MaxIds == 2

IdLists == UNION {[1..n -> IdStrings] : n \in 0..MaxIds}

Done(S, id) == [S EXCEPT !.done = Append(@, id)]

Failed(S, id) == [S EXCEPT !.errs = Append(@, id)]

\* IMAPClient.move([uid], folder): the message with that UID goes to the folder;
\* a UID no message has moves nothing, a folder that does not exist is an error
imap_move(S, u, f) ==
    IF SeqOfUid(S, u) = 0 THEN [S EXCEPT !.cmds = @ \cup {"MOVE"}]
    ELSE [S EXCEPT !.box[FolderFor(S, f)] =
                       Append(@, [S.box[S.sel][SeqOfUid(S, u)]
                                     EXCEPT !.uid = S.uidnext[FolderFor(S, f)]]),
                   !.uidnext[FolderFor(S, f)] = @ + 1,
                   !.box[S.sel] = SelectSeq(@, LAMBDA x : x.uid # u),
                   !.cmds = @ \cup {"MOVE"}]

\* the folder that holds the message with this REST id, or None
rest_find(S, id) ==
    IF \E f \in S.exists : \E i \in 1..Len(S.box[f]) : S.box[f][i].m = int(id)
    THEN CHOOSE f \in S.exists : \E i \in 1..Len(S.box[f]) : S.box[f][i].m = int(id)
    ELSE None

rest_msg(S, id) ==
    S.box[rest_find(S, id)][CHOOSE i \in 1..Len(S.box[rest_find(S, id)]) :
                                S.box[rest_find(S, id)][i].m = int(id)]

\* DELETE .../messages/{id}: the provider-native delete
rest_delete(S, id) ==
    [S EXCEPT !.box[rest_find(S, id)] = SelectSeq(@, LAMBDA x : x.m # int(id)),
              !.cmds = @ \cup {"DELETE"}]

\* POST .../trash, .../move, .../modify: the message goes to folder f
rest_move(S, id, f) ==
    IF rest_find(S, id) = f THEN S
    ELSE [S EXCEPT !.box[f] = Append(@, rest_msg(S, id)),
                   !.box[rest_find(S, id)] = SelectSeq(@, LAMBDA x : x.m # int(id)),
                   !.cmds = @ \cup {"MOVE"}]

\* a request about one message is answered 200 when the token is accepted and
\* the message exists
RestOK(S, id) == S.http # "expired" /\ rest_find(S, id) # None

\* the body of the per-id loop of each multi-id operation
one_id(S, id, how) ==
    CASE how = "yahoo_soft" ->
           IF CopyOK(S, int(id), "Trash")
           THEN Done(imap_store_deleted(imap_copy(S, int(id), "Trash"), int(id)), id)
           ELSE Failed([S EXCEPT !.cmds = @ \cup {"COPY"}], id)
      [] how = "yahoo_permanent" ->
           IF InRange(S, int(id)) THEN Done(imap_store_deleted(S, int(id)), id)
           ELSE Failed([S EXCEPT !.cmds = @ \cup {"STORE"},
                                 !.log = Append(@, "STORE")], id)
      [] how = "comcast_permanent" ->
           Done(imap_expunge(IF SeqOfUid(S, int(id)) = 0
                             THEN [S EXCEPT !.cmds = @ \cup {"STORE"},
                                            !.log = Append(@, "STORE")]
                             ELSE imap_store_deleted(S, SeqOfUid(S, int(id)))), id)
      [] how = "gmail_permanent" \/ how = "hotmail_delete" ->
           IF RestOK(S, id) THEN Done(rest_delete(S, id), id) ELSE Failed(S, id)
      [] how = "gmail_trash" ->
           IF RestOK(S, id) THEN Done(rest_move(S, id, "Trash"), id) ELSE Failed(S, id)
      [] how = "comcast_move" ->
           IF FolderFor(S, S.target) = None
           THEN Failed([S EXCEPT !.cmds = @ \cup {"MOVE"}], id)
           ELSE Done(imap_move(S, int(id), S.target), id)
      [] how = "gmail_modify" ->   \* addLabelIds [label], removeLabelIds ["INBOX"]
           IF ~RestOK(S, id) THEN Failed(S, id)
           ELSE IF rest_find(S, id) = "INBOX" THEN Done(rest_move(S, id, S.target), id)
           ELSE Done(S, id)
      [] OTHER ->                  \* hotmail_move
           IF RestOK(S, id) THEN Done(rest_move(S, id, S.target), id) ELSE Failed(S, id)

RECURSIVE each_id(_, _, _, _)
each_id(S, ids, i, how) ==
    IF i > Len(ids) THEN S ELSE each_id(one_id(S, ids[i], how), ids, i + 1, how)

expunge_if_any(S) == IF Len(S.done) > 0 THEN imap_expunge(S) ELSE S

\* YahooConnector.delete_emails
yahoo_delete_emails(S0, ids, permanent) ==
    expunge_if_any(each_id(imap_select(S0, "INBOX"), ids, 1,
                           IF permanent THEN "yahoo_permanent" ELSE "yahoo_soft"))

\* msg_ids = [int(msg_id) for msg_id in email_ids], outside the per-id try
IntsRaise(ids) == \E i \in 1..Len(ids) : int(ids[i]) = -1

\* ComcastConnector.delete_emails
comcast_delete_emails(S0, ids, permanent) ==
    IF IntsRaise(ids) THEN [imap_select(S0, "INBOX") EXCEPT !.raised = TRUE]
    ELSE each_id([imap_select(S0, "INBOX") EXCEPT !.target = "Trash"], ids, 1,
                 IF permanent THEN "comcast_permanent" ELSE "comcast_move")

\* ComcastConnector.move_to_folder: create_folder raises when the server says NO
comcast_move_to_folder(S0, ids, folder, refused) ==
    IF FolderFor(S0, folder) = None /\ folder \in refused
    THEN [imap_create(imap_select(S0, "INBOX"), folder, refused) EXCEPT !.raised = TRUE]
    ELSE IF IntsRaise(ids)
         THEN [(IF FolderFor(S0, folder) = None
                THEN imap_create(imap_select(S0, "INBOX"), folder, refused)
                ELSE imap_select(S0, "INBOX")) EXCEPT !.raised = TRUE]
         ELSE each_id([(IF FolderFor(S0, folder) = None
                        THEN imap_create(imap_select(S0, "INBOX"), folder, refused)
                        ELSE imap_select(S0, "INBOX")) EXCEPT !.target = folder],
                      ids, 1, "comcast_move")


\* GmailConnector.delete_emails
gmail_delete_emails(S0, ids, permanent) ==
    each_id(S0, ids, 1, IF permanent THEN "gmail_permanent" ELSE "gmail_trash")

\* HotmailConnector.delete_emails: the same DELETE whatever permanent is
hotmail_delete_emails(S0, ids, permanent) == each_id(S0, ids, 1, "hotmail_delete")

\* _get_or_create_label / _get_or_create_folder: look for the exact name in the
\* list, and POST a new one when it is not found or the list could not be read.
\* The server refuses a name it already has.
rest_get_or_create(S, name) ==
    IF S.http = "ok" /\ name \in S.exists THEN [S EXCEPT !.ok = TRUE, !.target = name]
    ELSE IF S.http # "expired" /\ FolderFor(S, name) = None
         THEN [S EXCEPT !.exists = @ \cup {name}, !.cmds = @ \cup {"CREATE"},
                        !.ok = TRUE, !.target = name]
         ELSE [S EXCEPT !.cmds = @ \cup {"CREATE"}, !.ok = FALSE, !.target = name]

\* GmailConnector.move_to_folder
gmail_move_to_folder(S0, ids, label) ==
    IF rest_get_or_create(S0, label).ok
    THEN each_id(rest_get_or_create(S0, label), ids, 1, "gmail_modify")
    ELSE [rest_get_or_create(S0, label) EXCEPT !.raised = TRUE]

\* HotmailConnector.move_to_folder
hotmail_move_to_folder(S0, ids, folder) ==
    IF rest_get_or_create(S0, folder).ok
    THEN each_id(rest_get_or_create(S0, folder), ids, 1, "hotmail_move")
    ELSE [rest_get_or_create(S0, folder) EXCEPT !.raised = TRUE]

\* preview_emails: one list request; anything but 200 returns []
rest_preview_emails(S0) ==
    [S0 EXCEPT !.count = IF S0.http = "ok" THEN Len(S0.box["INBOX"]) ELSE 0]

(***************************************************************************)
(* The connector operations on the store of one account                    *)
(***************************************************************************)
\* how the provider answers the requests of one call: the token is accepted,
\* the token has expired (401 to every request), or only the list request fails
HttpAnswers == {"ok", "expired", "list_fails"}

RestSession(http) == [Connected EXCEPT !.http = http]

FolderNames == {"Archive", "archive"}

ConnOp(op, ids, permanent, S) ==
    /\ MailCall
    /\ box' = S.box
    /\ exists' = S.exists
    /\ uidnext' = S.uidnext
    /\ server' = server
    /\ last' = [Returned(op, FALSE, permanent # "omitted", S)
                   EXCEPT !.ids = ids, !.permanent = Arg(permanent, FALSE)]

YahooDeleteEmails(ids, permanent) ==
    /\ CanCall
    /\ server.provider = "yahoo"
    /\ \E S \in {yahoo_delete_emails(Connected, ids, Arg(permanent, FALSE))} :
          ConnOp("delete_emails", ids, permanent, S)

ComcastDeleteEmails(ids, permanent) ==
    /\ CanCall
    /\ server.provider = "comcast"
    /\ \E S \in {comcast_delete_emails(Connected, ids, Arg(permanent, FALSE))} :
          ConnOp("delete_emails", ids, permanent, S)

ComcastMoveToFolder(ids, folder, refused) ==
    /\ CanCall
    /\ server.provider = "comcast"
    /\ \E S \in {comcast_move_to_folder(Connected, ids, folder, refused)} :
          ConnOp("move_to_folder", ids, "omitted", S)

GmailDeleteEmails(ids, permanent, http) ==
    /\ CanCall
    /\ server.provider = "gmail"
    /\ \E S \in {gmail_delete_emails(RestSession(http), ids, Arg(permanent, FALSE))} :
          ConnOp("delete_emails", ids, permanent, S)

HotmailDeleteEmails(ids, permanent, http) ==
    /\ CanCall
    /\ server.provider = "hotmail"
    /\ \E S \in {hotmail_delete_emails(RestSession(http), ids, Arg(permanent, FALSE))} :
          ConnOp("delete_emails", ids, permanent, S)

GmailMoveToFolder(ids, label, http) ==
    /\ CanCall
    /\ server.provider = "gmail"
    /\ \E S \in {gmail_move_to_folder(RestSession(http), ids, label)} :
          ConnOp("move_to_folder", ids, "omitted", S)

HotmailMoveToFolder(ids, folder, http) ==
    /\ CanCall
    /\ server.provider = "hotmail"
    /\ \E S \in {hotmail_move_to_folder(RestSession(http), ids, folder)} :
          ConnOp("move_to_folder", ids, "omitted", S)

PreviewEmails(http) ==
    /\ CanCall
    /\ server.provider \in OAuthProviders
    /\ \E S \in {rest_preview_emails(RestSession(http))} :
          ConnOp("preview_emails", <<>>, "omitted", S)

\* the get-or-create step on its own
GetOrCreate(name, http) ==
    /\ CanCall
    /\ server.provider \in OAuthProviders
    /\ \E S \in {rest_get_or_create(RestSession(http), name)} :
          ConnOp("get_or_create", <<>>, "omitted", [S EXCEPT !.raised = ~S.ok])

EnsureFolderExists(name, refused) ==
    /\ CanCall
    /\ server.provider \in PasswordProviders
    /\ \E S \in {ensure_folder_exists(imap_select(Connected, "INBOX"), name, refused)} :
          ConnOp("get_or_create", <<>>, "omitted",
                 [S EXCEPT !.raised = ~S.ok, !.target = name])

\* an inbox of n messages, some of them flagged \Deleted by an earlier client,
\* on a server of one of the four providers; Archive may exist already
InitConn ==
    /\ NoAccounts
    /\ NoOthers
    /\ calls = 0
    /\ \E n \in 0..MaxMsgs, shift \in {0, 1} :
         \E flagged \in [1..n -> BOOLEAN] :
            /\ box = [f \in Folders |->
                        IF f = "INBOX"
                        THEN [i \in 1..n |->
                                Message(i, [cat |-> "Personal", old |-> FALSE],
                                        shift, flagged[i])]
                        ELSE <<>>]
            /\ uidnext = [f \in Folders |-> IF f = "INBOX" THEN n + shift + 1 ELSE 1]
    /\ exists \in {{"INBOX", "Trash"}, {"INBOX", "Trash", "Archive"}}
    /\ server \in [provider : Providers, ci : BOOLEAN]
    /\ last = NoLast

\* permanent is left out or given as True; the requests of a delete are
\* answered alike when the token is accepted
Permanent == {"omitted", "true"}

NextConn ==
    \/ \E ids \in IdLists, permanent \in Permanent : YahooDeleteEmails(ids, permanent)
    \/ \E ids \in IdLists, permanent \in Permanent : ComcastDeleteEmails(ids, permanent)
    \/ \E ids \in IdLists, folder \in FolderNames, refused \in {{}, Folders} :
          ComcastMoveToFolder(ids, folder, refused)
    \/ \E ids \in IdLists, permanent \in Permanent, http \in {"ok", "expired"} :
          GmailDeleteEmails(ids, permanent, http)
    \/ \E ids \in IdLists, permanent \in Permanent, http \in {"ok", "expired"} :
          HotmailDeleteEmails(ids, permanent, http)
    \/ \E ids \in IdLists, label \in FolderNames, http \in HttpAnswers :
          GmailMoveToFolder(ids, label, http)
    \/ \E ids \in IdLists, folder \in FolderNames, http \in HttpAnswers :
          HotmailMoveToFolder(ids, folder, http)
    \/ \E http \in HttpAnswers : PreviewEmails(http)
    \/ \E name \in FolderNames, http \in HttpAnswers : GetOrCreate(name, http)
    \/ \E name \in FolderNames, refused \in {{}, Folders} : EnsureFolderExists(name, refused)

SpecConn == InitConn /\ [][NextConn]_vars


(***************************************************************************)
(* Claims about the connectors (under SpecConn)                            *)
(***************************************************************************)
MsgsOf(b, f) == {b[f][i].m : i \in 1..Len(b[f])}

\* C4: a delete_emails(ids, permanent=false) of any connector, permanent being
\* false also when it is left out, removes no message of the store for good, and
\* every message it removes from the inbox is in the trash folder afterwards.
C4_Step ==
    (last'.op = "delete_emails" /\ ~last'.permanent) =>
        /\ MsgsIn(box) \subseteq MsgsIn(box')
        /\ (MsgsOf(box, "INBOX") \ MsgsOf(box', "INBOX")) \subseteq MsgsOf(box', "Trash")

C4_SoftDeleteIsReversible == [][C4_Step]_vars

Count(x, seq) == Cardinality({i \in 1..Len(seq) : seq[i] = x})

\* C6: every delete_emails and move_to_folder call returns success, and each id
\* it was given is in exactly one of its succeeded and failed lists (as often as
\* it was given).
C6_PerItemIsolation ==
    last.op \in {"delete_emails", "move_to_folder"} =>
        /\ ~last.error
        /\ \A id \in Range(last.ids) :
              Count(id, last.succeeded) + Count(id, last.failed) = Count(id, last.ids)

\* C7: a call of the Gmail or Graph connector whose request is refused because
\* the token has expired refreshes the token once and sends the request once more.
C7_RefreshAndRetryOnce ==
    (server.provider \in OAuthProviders /\ last.op # None /\ last.http = "expired") =>
        /\ last.refreshes = 1
        /\ last.retries = 1

NoCaseTwins(E) == \A a, b \in E : CaseFold(a) = CaseFold(b) => a = b

\* C10: a get-or-create step for a name that a folder of the store already has,
\* ignoring case, sends no create and leaves no two folders whose names are equal
\* ignoring case.
C10_Step ==
    (last'.op = "get_or_create"
       /\ \E e \in exists : CaseFold(e) = CaseFold(last'.target)) =>
        /\ "CREATE" \notin last'.cmds
        /\ NoCaseTwins(exists')

C10_GetOrCreateIdempotent == [][C10_Step]_vars

(***************************************************************************)
(* SpamDetector (server/spam_detector.py).  A text is a sequence of        *)
(* tokens: the words of the response, with "\n" for a line break; blanks   *)
(* between the words are not kept.                                         *)
(***************************************************************************)
NL == "\n"

\* the words a response is made of: the two keys of the response format (one
\* of them in lower case), the three category names and a word that is none of them
Words == {"category:", "REASONING:", "SPAM", "KEEP", "UNSURE", "not"}

Tokens == Words \cup {NL}

\* the longest response, in tokens
MaxTokens == 5

Texts == UNION {[1..n -> Tokens] : n \in 0..MaxTokens}

\* str.upper(), word by word
UpperWord(w) ==
    CASE w = "category:" -> "CATEGORY:"
      [] w = "not" -> "NOT"
      [] OTHER -> w

upper(s) == [i \in 1..Len(s) |-> UpperWord(s[i])]

Index(s, x) == CHOOSE i \in 1..Len(s) : s[i] = x /\ \A j \in 1..(i - 1) : s[j] # x

RECURSIVE lstrip(_)
lstrip(s) == IF s # <<>> /\ Head(s) = NL THEN lstrip(Tail(s)) ELSE s

RECURSIVE rstrip(_)
rstrip(s) ==
    IF s # <<>> /\ s[Len(s)] = NL THEN rstrip(SubSeq(s, 1, Len(s) - 1)) ELSE s

\* str.strip()
strip(s) == rstrip(lstrip(s))

\* str.split('\n'): the lines of a text
RECURSIVE split(_)
split(s) ==
    IF InSeq(NL, s)
    THEN <<SubSeq(s, 1, Index(s, NL) - 1)>> \o split(SubSeq(s, Index(s, NL) + 1, Len(s)))
    ELSE <<s>>

\* line.strip().startswith("CATEGORY:")
StartsWithCategory(line) == line # <<>> /\ Head(line) = "CATEGORY:"

\* the category a CATEGORY: line gives: cat_value is what follows the first colon
CategoryOfLine(line) ==
    IF InSeq("SPAM", Tail(line)) THEN "spam"
    ELSE IF InSeq("KEEP", Tail(line)) THEN "keep"
    ELSE "unsure"

\* the loop over the lines, which stops at the first CATEGORY: line
RECURSIVE CategoryOfLines(_, _)
CategoryOfLines(lines, i) ==
    IF i > Len(lines) THEN "unsure"
    ELSE IF StartsWithCategory(lines[i]) THEN CategoryOfLine(lines[i])
    ELSE CategoryOfLines(lines, i + 1)

\* a loop that takes the category from the first line naming one, whether or
\* not the line starts with CATEGORY:
RECURSIVE CategoryOfAnyLine(_, _)
CategoryOfAnyLine(lines, i) ==
    IF i > Len(lines) THEN "unsure"
    ELSE IF InSeq("SPAM", lines[i]) THEN "spam"
    ELSE IF InSeq("KEEP", lines[i]) THEN "keep"
    ELSE CategoryOfAnyLine(lines, i + 1)

\* response.split("REASONING:", 1)[1].strip().split('\n')[0]; the cut at 200
\* characters is beyond the texts of the model
ReasoningOf(r) ==
    IF InSeq("REASONING:", r)
    THEN split(strip(SubSeq(r, Index(r, "REASONING:") + 1, Len(r))))[1]
    ELSE <<>>

Parsed(category, reasoning) ==
    [category |-> category,
     reasoning |-> IF reasoning = <<>> THEN <<"No reasoning provided">> ELSE reasoning]

\* _parse_response without the test for the CATEGORY: token
parse_response_any_line(text) ==
    Parsed(CategoryOfAnyLine(split(strip(upper(text))), 1),
           ReasoningOf(strip(upper(text))))

\* _parse_response
parse_response(text) ==
    Parsed(IF InSeq("CATEGORY:", strip(upper(text)))
           THEN CategoryOfLines(split(strip(upper(text))), 1)
           ELSE "unsure",
           ReasoningOf(strip(upper(text))))

\* what generate() does: it returns a text (the answer of the model, or the
\* "ERROR: ..." text of a failed CLI fallback, which has no line starting with
\* a key), or an exception leaves it
Replies == [kind : {"text"}, text : Texts] \cup {[kind |-> "raises", text |-> <<>>]}

\* no verdict yet
NoVerdict == [category |-> None, reasoning |-> <<>>]

\* categorize_email: the except branch returns unsure with "Error: <message>"
categorize_email(reply) ==
    IF reply.kind = "raises"
    THEN [category |-> "unsure", reasoning |-> <<"Error:", "message">>]
    ELSE parse_response(reply.text)

OtherThanSpam ==
    /\ NoAccounts /\ NoMail /\ NoOAuth /\ NoRequests /\ NoIntel /\ NoLearners /\ NoRest
    /\ calls = 0

CategorizeEmail ==
    /\ verdict = NoVerdict
    /\ verdict' = categorize_email(response)
    /\ UNCHANGED <<response, calls, acctVars, mailVars, oauthVars, requests,
                   intelVars, learnVars, restVars>>

InitSpamDetector == OtherThanSpam /\ response \in Replies /\ verdict = NoVerdict

NextSpamDetector == CategorizeEmail

SpecSpamDetector == InitSpamDetector /\ [][NextSpamDetector]_vars

(***************************************************************************)
(* Claims about the spam detector (under SpecSpamDetector)                 *)
(***************************************************************************)

\* C11: categorize_email returns for every reply; when the response text has no
\* CATEGORY: token, and when the model call fails, the verdict has category
\* "unsure" and a reasoning that is not empty.
C11_NoTokenIsUnsure ==
    (verdict # NoVerdict
       /\ (response.kind = "raises" \/ ~InSeq("CATEGORY:", upper(response.text)))) =>
        /\ verdict.category = "unsure"
        /\ verdict.reasoning # <<>>

\* C11 witness: a response that names SPAM and gives a reasoning but has no
\* CATEGORY: token was parsed
C11_Witness ==
    /\ verdict # NoVerdict
    /\ response.kind = "text"
    /\ InSeq("SPAM", response.text) /\ InSeq("REASONING:", response.text)
    /\ ~InSeq("CATEGORY:", upper(response.text))

\* the two-line contract: the first CATEGORY: line has exactly one of the three
\* category names as its value, and some line starts with REASONING:
FollowsContract(text) ==
    /\ \E i \in 1..Len(split(strip(upper(text)))) :
          /\ StartsWithCategory(split(strip(upper(text)))[i])
          /\ \A j \in 1..(i - 1) : ~StartsWithCategory(split(strip(upper(text)))[j])
          /\ Tail(split(strip(upper(text)))[i]) \in {<<"SPAM">>, <<"KEEP">>, <<"UNSURE">>}
    /\ \E i \in 1..Len(split(strip(upper(text)))) :
          /\ split(strip(upper(text)))[i] # <<>>
          /\ Head(split(strip(upper(text)))[i]) = "REASONING:"

\* C12: a response that does not follow the two-line contract (no REASONING:
\* line, or a CATEGORY: value that is not exactly SPAM, KEEP or UNSURE) is a
\* parse failure and yields category "unsure"; none yields "spam".
C12_MalformedIsUnsure ==
    (verdict # NoVerdict /\ response.kind = "text" /\ ~FollowsContract(response.text)) =>
        verdict.category = "unsure"

(***************************************************************************)
(* OAuth2Handler.start_authorization_flow (server/security/                *)
(* oauth2_handler.py).  The call runs in steps: Start is the code up to    *)
(* the poll loop, Poll one pass of the loop (or the code after it), and    *)
(* Callback is do_GET on the listener's thread.  A message is a sequence   *)
(* of words, so that an f-string is a concatenation.                       *)
(***************************************************************************)
\* timeout = 300 (seconds)
timeout == 300

\* time.sleep(0.5): the clock of the model counts half seconds
SLEEPS_PER_SECOND == 2

\* the number of authorization attempts of one run
MaxFlows == 2

TimeoutMessage ==
    <<"Authorization", "timeout", "-", "user", "did", "not", "complete", "flow">>

ExchangeMessage ==
    <<"Failed", "to", "exchange", "authorization", "code", "for", "tokens">>

\* f"Authorization error: {OAuth2CallbackHandler.auth_error}"
DenialMessage(auth_error) == <<"Authorization", "error:">> \o auth_error

\* the error parameter of a callback: what the provider sends on a denial, or
\* any other text
AuthErrors == {<<"access_denied">>, Tail(TimeoutMessage)}

\* str(e) of the exceptions the except branch catches
BindMessage == <<"[Errno 48]", "Address", "already", "in", "use">>

BrowserMessage == <<"could", "not", "locate", "runnable", "browser">>

NoCallback == [auth_code |-> None, auth_error |-> <<>>]

NoResult == [success |-> FALSE, tokens |-> None, error |-> <<>>]

\* n: the number of this attempt; listening: whether this call started a
\* listener; elapsed: time.time() - start_time, in half seconds
NoFlow == [n |-> 0, pc |-> "returned", listening |-> FALSE, elapsed |-> 0,
           outcome |-> None, result |-> NoResult]

Returns(outcome, success, tokens, error) ==
    [flow EXCEPT !.pc = "returned", !.outcome = outcome,
                 !.result = [success |-> success, tokens |-> tokens, error |-> error]]

OAuthStep ==
    UNCHANGED <<calls, acctVars, mailVars, spamVars, requests, intelVars, learnVars, restVars>>

\* the code before the loop.  TCPServer(("localhost", 8888), ...) raises when
\* the port is held by another listener; webbrowser.open may raise once the
\* listener thread runs.  Both end in the except branch.
Start(browserRaises) ==
    /\ flow.pc = "returned" /\ flow.n < MaxFlows
    /\ callback' = NoCallback
    /\ \E f \in {[NoFlow EXCEPT !.n = flow.n + 1]} :
          IF listeners # {}
          THEN /\ flow' = [f EXCEPT !.outcome = "exception",
                                    !.result = [NoResult EXCEPT !.error = BindMessage]]
               /\ listeners' = listeners
          ELSE /\ listeners' = {f.n}
               /\ flow' = IF browserRaises
                          THEN [f EXCEPT !.listening = TRUE, !.outcome = "exception",
                                         !.result = [NoResult EXCEPT !.error = BrowserMessage]]
                          ELSE [f EXCEPT !.listening = TRUE, !.pc = "polling"]
    /\ OAuthStep

\* do_GET of a listener that is serving: a callback with a code or an error
Callback(code, error) ==
    /\ listeners # {}
    /\ callback' = IF code # None THEN [callback EXCEPT !.auth_code = code]
                   ELSE [callback EXCEPT !.auth_error = error]
    /\ UNCHANGED <<flow, listeners>>
    /\ OAuthStep

\* server.shutdown(); the server object is dropped when the call returns
shutdown == listeners \ {flow.n}

\* a loop condition that compares the number of passes with the timeout
InTime_counts_passes == flow.elapsed < timeout

\* while time.time() - start_time < timeout
InTime == flow.elapsed < timeout * SLEEPS_PER_SECOND

\* one pass of "while time.time() - start_time < timeout", or the code after
\* the loop.  `exchanged` is whether _exchange_code_for_tokens returns tokens,
\* `slept` how long time.sleep(0.5) took.
Poll(exchanged, slept) ==
    /\ flow.pc = "polling"
    /\ IF InTime
       THEN IF callback.auth_code # None
            THEN /\ listeners' = shutdown
                 /\ flow' = IF exchanged
                            THEN Returns("success", TRUE, "tokens", <<>>)
                            ELSE Returns("exchange_failed", FALSE, None, ExchangeMessage)
            ELSE IF callback.auth_error # <<>>
                 THEN /\ listeners' = shutdown
                      /\ flow' = Returns("denied", FALSE, None,
                                         DenialMessage(callback.auth_error))
                 ELSE /\ listeners' = listeners
                      /\ flow' = [flow EXCEPT !.elapsed = @ + slept]
       ELSE /\ listeners' = shutdown
            /\ flow' = Returns("timeout", FALSE, None, TimeoutMessage)
    /\ UNCHANGED callback
    /\ OAuthStep

OtherThanOAuth ==
    /\ NoAccounts /\ NoMail /\ NoSpamDetector /\ NoRequests /\ NoIntel /\ NoLearners /\ NoRest
    /\ calls = 0

InitOAuth == OtherThanOAuth /\ flow = NoFlow /\ callback = NoCallback /\ listeners = {}

NextOAuth ==
    \/ \E browserRaises \in BOOLEAN : Start(browserRaises)
    \/ \E code \in {"code"} : Callback(code, <<>>)
    \/ \E error \in AuthErrors : Callback(None, error)
    \/ \E exchanged \in BOOLEAN, slept \in {1, 2} : Poll(exchanged, slept)

SpecOAuth == InitOAuth /\ [][NextOAuth]_vars

\* the calling thread keeps running: a pass of the loop that can be made is made
FairOAuth == SpecOAuth /\ WF_vars(\E exchanged \in BOOLEAN, slept \in {1, 2} : Poll(exchanged, slept))

(***************************************************************************)
(* Claims about the authorization flow                                     *)
(***************************************************************************)

\* C13 (under SpecOAuth): whenever start_authorization_flow has returned after
\* it started its listener -- success, provider error, timeout, failed code
\* exchange or an exception after the start -- no listener serves port 8888, so
\* that the next attempt can start its own.
C13_ListenerShutDown ==
    (flow.pc = "returned" /\ flow.listening) => listeners = {}

\* C14 (under FairOAuth): a call that waits for the callback returns; when no
\* callback with a code or an error has arrived it returns (false, none, the
\* timeout message) once 300 seconds have elapsed and not before; and the
\* messages of a timeout, a denial and a failed exchange differ from each other.
C14_Outcomes ==
    /\ (flow.outcome = "timeout") =>
          /\ flow.result = [success |-> FALSE, tokens |-> None, error |-> TimeoutMessage]
          /\ flow.elapsed >= 300 * SLEEPS_PER_SECOND
          /\ flow.result.error # ExchangeMessage
          /\ \A e \in AuthErrors : flow.result.error # DenialMessage(e)
    /\ (flow.pc = "returned" /\ flow.listening /\ callback = NoCallback) =>
          flow.outcome \in {"timeout", "exception"}
    /\ (flow.outcome = "denied") =>
          /\ ~flow.result.success
          /\ flow.result.error \notin {TimeoutMessage, ExchangeMessage}
    /\ (flow.outcome = "exchange_failed") =>
          /\ flow.result.error = ExchangeMessage
          /\ flow.result.error # TimeoutMessage
          /\ \A e \in AuthErrors : flow.result.error # DenialMessage(e)

C14_Terminates == [](C14_Outcomes) /\ ((flow.pc = "polling") ~> (flow.pc = "returned"))

\* C14 witness: a call that returned the timeout message with no callback
C14_Witness ==
    /\ flow.pc = "returned" /\ flow.outcome = "timeout"
    /\ callback = NoCallback
    /\ flow.elapsed >= timeout * SLEEPS_PER_SECOND

(***************************************************************************)
(* A further claim about the vault (under SpecAccounts)                    *)
(***************************************************************************)
\* the secret values of the model
Secrets == {Password, ClientSecret, Tok}

\* C15: in every reachable state no secret value (app password, OAuth access
\* or refresh token, OAuth client secret) appears in the account metadata
\* written to accounts.json; the metadata holds the provider, the names of
\* the credential kinds and the expiry only.
C15_NoSecretInMetadata ==
    \A id \in Accts :
        /\ disk[id].provider \notin Secrets
        /\ Range(disk[id].credential_types) \cap Secrets = {}
        /\ disk[id].additional_data \notin Secrets

(***************************************************************************)
(* EmailManager (server/managers/email_manager.py).  A request that        *)
(* reaches an operation takes a connector for one account from the         *)
(* AccountManager, works with it and disconnects it.  Two requests can be  *)
(* in flight at once.                                                      *)
(***************************************************************************)
Slots == {"r1", "r2"}

\* the operations that take a connector from the AccountManager
EmailManagerOps == {"check_all_accounts", "send_email", "categorize_all_accounts",
                    "ensure_folders_exist", "setup_all_accounts"}

\* the cache argument of the get_connector call of each operation:
\* ensure_folders_exist (also when called by setup_all_accounts) passes none,
\* which is cache=True; the others pass cache=False
CacheArg(op) == op \in {"ensure_folders_exist", "setup_all_accounts"}

\* the number of requests of one run
MaxRequests == 3

NoRequest == [op |-> None, id |-> None, cache |-> FALSE, conn |-> NoInst]

\* AccountManager.get_connector(id, cache) for an account of the vault: the
\* instance returned, the cache and the instance counter afterwards
get_connector(id, cache) ==
    IF cache /\ active_connectors[id] # NoInst
    THEN [conn |-> active_connectors[id], active |-> active_connectors, next |-> nextInst]
    ELSE [conn |-> [inst |-> nextInst, cls |-> ConnectorClass(mem, id)],
          active |-> IF cache
                     THEN [active_connectors EXCEPT
                              ![id] = [inst |-> nextInst, cls |-> ConnectorClass(mem, id)]]
                     ELSE active_connectors,
          next |-> nextInst + 1]

RequestStep ==
    UNCHANGED <<keychain, mem, disk, ret, mailVars, spamVars, oauthVars,
                intelVars, learnVars, restVars>>

\* the operation of request r takes its connector for account id and connects
ObtainConnector(r, op, id) ==
    /\ calls < MaxRequests
    /\ requests[r] = NoRequest
    /\ HasAccount(mem, id)
    /\ calls' = calls + 1
    /\ \E got \in {get_connector(id, CacheArg(op))} :
          /\ requests' = [requests EXCEPT ![r] = [op |-> op, id |-> id,
                                                   cache |-> CacheArg(op),
                                                   conn |-> got.conn]]
          /\ active_connectors' = got.active
          /\ nextInst' = got.next
    /\ RequestStep

\* connector.disconnect(): the operation of request r is done with the account
Disconnect(r) ==
    /\ requests[r] # NoRequest
    /\ requests' = [requests EXCEPT ![r] = NoRequest]
    /\ UNCHANGED <<calls, active_connectors, nextInst>>
    /\ RequestStep

\* two accounts are configured
InitEmailManager ==
    /\ NoMail /\ NoSpamDetector /\ NoOAuth /\ NoIntel /\ NoLearners /\ NoRest
    /\ calls = 0
    /\ keychain = [k \in Accts \X Kinds |-> IF k[2] = "app_password" THEN Password ELSE None]
    /\ mem = [id \in Accts |-> [NoMeta EXCEPT !.provider = "yahoo",
                                              !.credential_types = <<"app_password">>]]
    /\ disk = mem
    /\ active_connectors = [id \in Accts |-> NoInst]
    /\ nextInst = 1
    /\ ret = NoRet
    /\ requests = [r \in Slots |-> NoRequest]

NextEmailManager ==
    \/ \E r \in Slots, op \in EmailManagerOps, id \in Accts : ObtainConnector(r, op, id)
    \/ \E r \in Slots : Disconnect(r)

SpecEmailManager == InitEmailManager /\ [][NextEmailManager]_vars

(***************************************************************************)
(* Claim about the EmailManager (under SpecEmailManager)                   *)
(***************************************************************************)

\* C16: every operation in flight took its connector with cache=false, and two
\* operations in flight on the same account never hold the same connector
\* instance.
C16_NoSharedConnector ==
    /\ \A r \in Slots : requests[r] # NoRequest => ~requests[r].cache
    /\ \A r, q \in Slots :
          (r # q /\ requests[r] # NoRequest /\ requests[q] # NoRequest
             /\ requests[r].id = requests[q].id) =>
              requests[r].conn # requests[q].conn

(***************************************************************************)
(* A further claim about the email functions (under SpecImap)              *)
(***************************************************************************)
\* the number of unread messages of the inbox
Unread(b) == Cardinality({i \in 1..Len(b["INBOX"]) : ~b["INBOX"][i].seen})

\* the number of spam messages among the last n messages of the inbox
SpamAmongLast(b, n) ==
    Cardinality({i \in 1..Len(b["INBOX"]) :
                    i > Len(b["INBOX"]) - n /\ b["INBOX"][i].cat = "Spam"})

\* C17: detect_spam(account, max_messages=n, delete=false) returns spam_count =
\* the number of spam messages among the last n inbox messages, and leaves the
\* number of unread messages and the number of messages of the inbox unchanged.
C17_Step ==
    \A n \in MaxMessages, delete \in {"omitted", "false"}, dry_run \in Opt :
        DetectSpam(n, delete, dry_run) =>
            /\ last'.count = SpamAmongLast(box, n)
            /\ Unread(box') = Unread(box)
            /\ Len(box'["INBOX"]) = Len(box["INBOX"])

C17_DetectSpamCountsAndKeeps == [][C17_Step]_vars

(***************************************************************************)
(* PriorityEngine.calculate_priority (server/intelligence/                 *)
(* priority_engine.py).  A learned score is counted in tenths (5.0 is 50), *)
(* a priority in hundredths (5.0 is 500), so that every product of the     *)
(* code is an integer: (s - 5.0) * 0.4 is (s - 50) * 4.                    *)
(***************************************************************************)
\* the senders of the model: one with a domain, one without "@"
Senders == {"Boss@corp.com", "nobody"}

\* sender.lower()
LowerSender(a) == IF a = "Boss@corp.com" THEN "boss@corp.com" ELSE a

\* sender.split("@")[-1] if "@" in sender else ""
DomainOf(a) == IF a = "boss@corp.com" THEN "corp.com" ELSE ""

\* the words of a subject
SubjectWords == {"Re:", "urgent", "meeting", "offer", "hi"}

\* subject.lower(), word by word
LowerWord(w) == IF w = "Re:" THEN "re:" ELSE w

\* len(word) > 4
IsKeyword(w) == w \in {"urgent", "meeting", "offer"}

\* the longest subject, in words
MaxWords == 2

Subjects == UNION {[1..n -> SubjectWords] : n \in 0..MaxWords}

\* a learned score of great magnitude, in tenths
Huge == 1000000

Scores == {-Huge, 0, 100, Huge}

\* an entry of patterns["senders"], ["domains"] or ["keywords"]: absent or a score
Entries == {[known |-> FALSE, score |-> 0]} \cup [known : {TRUE}, score : Scores]

\* the entry of a key in one of the three dicts, absent when the key is not in it
Lookup(dict, key) ==
    IF key \in DOMAIN dict THEN dict[key] ELSE [known |-> FALSE, score |-> 0]

Contribution(entry, weight) == IF entry.known THEN (entry.score - 50) * weight ELSE 0

\* the loop over the keywords of the subject
RECURSIVE keyword_boost(_, _, _)
keyword_boost(p, subject, i) ==
    IF i > Len(subject) THEN 0
    ELSE (IF IsKeyword(LowerWord(subject[i]))
          THEN Contribution(Lookup(p.keywords, LowerWord(subject[i])), 1)
          ELSE 0) + keyword_boost(p, subject, i + 1)

HasWord(subject, w) == \E i \in 1..Len(subject) : LowerWord(subject[i]) = w

\* the score before it is clamped
raw_priority(p, e) ==
    500 + Contribution(Lookup(p.senders, LowerSender(e.from)), 4)
        + Contribution(Lookup(p.domains, DomainOf(LowerSender(e.from))), 2)
        + keyword_boost(p, e.subject, 1)
        + (IF HasWord(e.subject, "urgent") THEN 200 ELSE 0)
        + (IF HasWord(e.subject, "meeting") THEN 150 ELSE 0)
        + (IF e.subject # <<>> /\ LowerWord(e.subject[1]) = "re:" THEN 100 ELSE 0)

\* max(0.0, min(10.0, score))
Clamp(score) == IF score > 1000 THEN 1000 ELSE IF score < 0 THEN 0 ELSE score

\* calculate_priority without its last statement
calculate_priority_unclamped(p, e) == raw_priority(p, e)

\* calculate_priority
calculate_priority(p, e) == Clamp(raw_priority(p, e))

\* no priority computed yet
NoPriority == [returned |-> FALSE, score |-> 0]

CalculatePriority ==
    /\ priority = NoPriority
    /\ priority' = [returned |-> TRUE, score |-> calculate_priority(patterns, email)]
    /\ UNCHANGED <<patterns, email, context, calls, acctVars, mailVars, spamVars,
                   oauthVars, requests, learnVars, restVars>>

InitPriority ==
    /\ NoAccounts /\ NoMail /\ NoSpamDetector /\ NoOAuth /\ NoRequests /\ NoLearners /\ NoRest
    /\ calls = 0
    /\ context = None
    /\ patterns \in [senders : [{"boss@corp.com"} -> Entries],
                     domains : [{"corp.com"} -> Entries],
                     keywords : [{"urgent", "offer"} -> Entries]]
    /\ email \in [from : Senders, subject : Subjects]
    /\ priority = NoPriority

NextPriority == CalculatePriority

SpecPriority == InitPriority /\ [][NextPriority]_vars

(***************************************************************************)
(* Claim about the priority engine (under SpecPriority)                    *)
(***************************************************************************)

\* C18: for every email and every state of the learned patterns -- sender,
\* domain and keyword scores of any magnitude, any number of matching
\* keywords -- calculate_priority returns a value in [0, 10].
C18_PriorityInRange ==
    priority.returned => (0 <= priority.score /\ priority.score <= 1000)

\* C18 witness: a priority was computed from scores whose sum is above 10
C18_Witness ==
    /\ priority.returned
    /\ raw_priority(patterns, email) > 1000
    /\ priority.score = 1000

(***************************************************************************)
(* ContextEngine._recommend_action (server/intelligence/context_engine.py) *)
(***************************************************************************)
\* no avg_response_time_seconds (None)
NoAvg == -1

\* what get_sender_insights returns: {"known": False}, or the insights of a
\* known sender with the average of its response times, if any, in seconds
SenderInsights ==
    {[known |-> FALSE, should_prioritize |-> FALSE, avg_response_time_seconds |-> NoAvg]}
        \cup [known : {TRUE}, should_prioritize : BOOLEAN,
              avg_response_time_seconds : {NoAvg, 1800, 3600}]

\* the flags of _analyze_content that _recommend_action reads
ContentFlags == [has_meeting_request : BOOLEAN, requests_action : BOOLEAN,
                 has_calendar_invite : BOOLEAN, has_question : BOOLEAN,
                 is_automated : BOOLEAN]

\* priority scores on both sides of 8.0, in hundredths
PriorityScores == {450, 799, 800, 1000}

\* _recommend_action
recommend_action(c) ==
    IF c.priority >= 800
    THEN IF c.content_flags.has_meeting_request THEN "schedule_meeting"
         ELSE IF c.content_flags.requests_action THEN "respond_immediately"
         ELSE "review_immediately"
    ELSE IF c.content_flags.has_calendar_invite THEN "process_calendar_invite"
    ELSE IF c.sender_insights.should_prioritize
            /\ c.sender_insights.avg_response_time_seconds # NoAvg
            /\ c.sender_insights.avg_response_time_seconds # 0
            /\ c.sender_insights.avg_response_time_seconds < 3600
         THEN "respond_soon"
    ELSE IF c.content_flags.has_question /\ ~c.content_flags.is_automated
         THEN "respond_when_available"
    ELSE IF c.content_flags.is_automated THEN "auto_file"
    ELSE "review_later"

\* analyze_email: context["recommended_action"] = self._recommend_action(context)
RecommendAction ==
    /\ context.recommended_action = None
    /\ context' = [context EXCEPT !.recommended_action = recommend_action(context)]
    /\ UNCHANGED <<patterns, email, priority, calls, acctVars, mailVars, spamVars,
                   oauthVars, requests, learnVars, restVars>>

InitContext ==
    /\ NoAccounts /\ NoMail /\ NoSpamDetector /\ NoOAuth /\ NoRequests /\ NoLearners /\ NoRest
    /\ calls = 0
    /\ patterns = None /\ email = None /\ priority = None
    /\ context \in [priority : PriorityScores, content_flags : ContentFlags,
                    sender_insights : SenderInsights, recommended_action : {None}]

NextContext == RecommendAction

SpecContext == InitContext /\ [][NextContext]_vars

(***************************************************************************)
(* Claim about the context engine (under SpecContext)                      *)
(***************************************************************************)
\* the ordered decision table: the action of the first row that matches
DecisionTable(c) ==
    IF c.priority >= 800 /\ c.content_flags.has_meeting_request THEN "schedule_meeting"
    ELSE IF c.priority >= 800 /\ c.content_flags.requests_action THEN "respond_immediately"
    ELSE IF c.content_flags.has_calendar_invite THEN "process_calendar_invite"
    ELSE IF c.sender_insights.known /\ c.sender_insights.should_prioritize
            /\ c.sender_insights.avg_response_time_seconds # NoAvg
            /\ c.sender_insights.avg_response_time_seconds < 3600
         THEN "respond_soon"
    ELSE IF c.content_flags.has_question /\ ~c.content_flags.is_automated
         THEN "respond_when_available"
    ELSE IF c.content_flags.is_automated THEN "auto_file"
    ELSE "review_later"

\* C19: for every combination of priority score, content flags and sender
\* insights _recommend_action returns the action of the first matching row of
\* the decision table (urgent and meeting, urgent and action request, calendar
\* invite, known fast-responding sender, question and not automated, automated,
\* otherwise review_later), and no action outside the table.
C19_FollowsDecisionTable ==
    context.recommended_action # None =>
        context.recommended_action = DecisionTable(context)

(***************************************************************************)
(* The four learners and their JSON files: PriorityEngine, CategoryLearner *)
(* and ToneLearner (server/intelligence) and the sender history of         *)
(* EmailManager.  A learner's state is kept by what it has learned: the    *)
(* actions seen per sender (their scores and counts follow from them), the *)
(* list of corrections (the rule counters follow from it; its cut at 1000  *)
(* entries is beyond the runs of the model), the samples per recipient,    *)
(* and the category and count per sender.                                  *)
(***************************************************************************)
Correspondents == {"a@x.com", "b@y.org"}

\* actions of learn_from_action with a positive, a negative and no score
Actions == {"starred", "ignored_week", "archived"}

\* two of the categories of EMAIL_CATEGORIES
EMAIL_CATEGORIES == {"Work", "Personal"}

\* what the model answers when asked for a category: a category, or a text
\* that is none
Answers == EMAIL_CATEGORIES \cup {"I think Work"}

\* the number of learner calls of one run
MaxLearns == 3

NoHistory == [category |-> None, count |-> 0]

\* the state a learner loads when its file does not exist
Unlearned ==
    [priority |-> [s \in Correspondents |-> <<>>],
     category |-> <<>>,
     tone     |-> [s \in Correspondents |-> 0],
     history  |-> [s \in Correspondents |-> NoHistory]]

\* _save_patterns, _save_rules, _save_profiles, _save_sender_history: the file
\* is rewritten from the in-memory state; an exception of the write is logged
\* and swallowed
save(file, state, writeFails) == IF writeFails THEN file ELSE state

LearnStep ==
    UNCHANGED <<acctVars, mailVars, spamVars, oauthVars, requests, intelVars, restVars>>

Learns(op, learner, state, writeFails) ==
    /\ calls < MaxLearns
    /\ calls' = calls + 1
    /\ learned' = [learned EXCEPT ![learner] = state]
    /\ stored' = [stored EXCEPT ![learner] = save(@, state, writeFails)]
    /\ learn' = [op |-> op, learner |-> learner, writeFails |-> writeFails]
    /\ LearnStep

\* PriorityEngine.learn_from_action
LearnFromAction(sender, action, writeFails) ==
    Learns("learn_from_action", "priority",
           [learned.priority EXCEPT ![sender] = Append(@, action)], writeFails)

\* CategoryLearner.learn_from_correction
LearnFromCorrection(sender, correct_category, writeFails) ==
    Learns("learn_from_correction", "category",
           Append(learned.category, [sender |-> sender, correct_category |-> correct_category]),
           writeFails)

\* ToneLearner.learn_from_sent_email
LearnFromSentEmail(to, writeFails) ==
    Learns("learn_from_sent_email", "tone",
           [learned.tone EXCEPT ![to] = @ + 1], writeFails)

\* the sender-history update of EmailManager._categorize_email, for an answer
\* of the model that is a category; any other answer changes and saves nothing
UpdateSenderHistory(sender, category, writeFails) ==
    /\ category \in EMAIL_CATEGORIES
    /\ Learns("_categorize_email", "history",
              IF learned.history[sender] = NoHistory
              THEN [learned.history EXCEPT ![sender] = [category |-> category, count |-> 1]]
              ELSE IF learned.history[sender].category = category
                   THEN [learned.history EXCEPT ![sender].count = @ + 1]
                   ELSE learned.history,
              writeFails)

NoLearn == [op |-> None, learner |-> None, writeFails |-> FALSE]

InitLearners ==
    /\ NoAccounts /\ NoMail /\ NoSpamDetector /\ NoOAuth /\ NoRequests /\ NoIntel /\ NoRest
    /\ calls = 0
    /\ learned = Unlearned
    /\ stored = Unlearned
    /\ learn = NoLearn

NextLearners ==
    \/ \E sender \in Correspondents, action \in Actions, writeFails \in BOOLEAN :
          LearnFromAction(sender, action, writeFails)
    \/ \E sender \in Correspondents, category \in EMAIL_CATEGORIES, writeFails \in BOOLEAN :
          LearnFromCorrection(sender, category, writeFails)
    \/ \E to \in Correspondents, writeFails \in BOOLEAN : LearnFromSentEmail(to, writeFails)
    \/ \E sender \in Correspondents, category \in Answers, writeFails \in BOOLEAN :
          UpdateSenderHistory(sender, category, writeFails)

SpecLearners == InitLearners /\ [][NextLearners]_vars

(***************************************************************************)
(* Claim about the learners (under SpecLearners)                           *)
(***************************************************************************)

\* C20: after every mutating learner call has returned (learn_from_action,
\* learn_from_correction, learn_from_sent_email, the sender-history update of
\* _categorize_email) the state in the learner's file equals its in-memory
\* state: no update is held in memory only.
C20_StoredEqualsLearned ==
    learn.op # None => stored[learn.learner] = learned[learn.learner]

(***************************************************************************)
(* Claims about the order of the commands of one call                      *)
(***************************************************************************)
BatchMutations == {"bulk_delete_emails", "categorize_emails", "detect_spam",
                   "move_spam_to_folder", "delete_emails"}

\* the commands of the log are flags first and then at most one expunge
FlagsThenOneExpunge(log) ==
    \A i \in 1..Len(log) : log[i] = "EXPUNGE" => i = Len(log)

\* C21: a batch mutation (bulk_delete_emails, categorize_emails, detect_spam,
\* move_spam_to_folder, delete_emails of an IMAP connector) sends all its
\* \Deleted flags first and expunges once, after the last flag: no expunge comes
\* between two flags of the same call.
C21_OneExpungePerCall ==
    last.op \in BatchMutations => FlagsThenOneExpunge(last.log)

(***************************************************************************)
(* Claims about what the email functions remove (under SpecImap)           *)
(***************************************************************************)
\* C22: categorize_emails with dry_run false loses no mail: every message it
\* removes from the inbox is in the folder of its category afterwards, also when
\* the server refuses to create the folder or refuses the copy.
C22_Step ==
    (last'.op = "categorize_emails" /\ ~last'.dry_run) =>
        \A i \in 1..Len(box["INBOX"]) :
            box["INBOX"][i].m \notin MsgsOf(box', "INBOX") =>
                box["INBOX"][i].m \in MsgsOf(box', box["INBOX"][i].cat)

C22_CategorizeKeepsMail == [][C22_Step]_vars

\* the messages of folder f that the search criteria match
Matching(b, f, crit) ==
    {b[f][i].m : i \in {j \in 1..Len(b[f]) : Matches(b[f][j], crit)}}

\* C23: bulk_delete_emails with dry_run false removes exactly the messages that
\* matched the criteria when the search ran, whatever their number (also more
\* than one chunk): it removes no message that did not match, and when it
\* returns without an error it has removed every matching message and its
\* deleted_count is the number of matches, the would_delete of a dry run.
C23_Step ==
    \A folder \in {"INBOX", "Promotions"}, crit \in {"ALL", "BEFORE"}, strict \in BOOLEAN :
        BulkDeleteEmails(folder, crit, "false", strict) =>
            /\ (MsgsOf(box, folder) \ MsgsOf(box', folder)) \subseteq Matching(box, folder, crit)
            /\ ~last'.error =>
                  /\ MsgsOf(box', folder) \cap Matching(box, folder, crit) = {}
                  /\ last'.count = Cardinality(Matching(box, folder, crit))

C23_BulkDeleteRemovesMatches == [][C23_Step]_vars

\* the messages of the inbox that _is_spam classifies as spam
SpamOf(b) == {b["INBOX"][i].m : i \in {j \in 1..Len(b["INBOX"]) : b["INBOX"][j].cat = "Spam"}}

\* C24: move_spam_to_folder with dry_run false moves only messages it classified
\* as spam, also when the sequence numbers and the UIDs of the inbox differ:
\* every message that leaves the inbox or arrives in another folder is spam.
C24_Step ==
    (last'.op = "move_spam_to_folder" /\ ~last'.dry_run) =>
        /\ (MsgsOf(box, "INBOX") \ MsgsOf(box', "INBOX")) \subseteq SpamOf(box)
        /\ \A f \in Folders \ {"INBOX"} :
              (MsgsOf(box', f) \ MsgsOf(box, f)) \subseteq SpamOf(box)

C24_MovesOnlySpam == [][C24_Step]_vars

(***************************************************************************)
(* Several CredentialVault instances in one process: the AccountManager's  *)
(* (mem) and the one each REST connector builds in its __init__ (vaults).  *)
(* Every instance loads accounts.json once, when it is constructed, and    *)
(* _save_accounts_metadata writes the whole of its own copy.               *)
(***************************************************************************)
\* the number of vault operations in one run
MaxVaultCalls == 5

\* no connector has been built for the account
NoVault == [built |-> FALSE, m |-> [id \in Accts |-> NoMeta]]

VaultStep ==
    /\ calls < MaxVaultCalls
    /\ calls' = calls + 1
    /\ UNCHANGED <<active_connectors, nextInst, ret, mailVars, spamVars, oauthVars,
                   requests, intelVars, learnVars, attempts, sessions, handled>>

\* add_account_oauth with a granted authorization: the three stores of the
\* AccountManager's vault
ManagerStore(id, provider) ==
    /\ VaultStep
    /\ \E v1 \in {store_credentials(VaultState(keychain, mem, disk), id, provider,
                                    "oauth_access_token", Tok, ClientSecret)} :
       \E v2 \in {store_credentials(v1, id, provider, "oauth_refresh_token", Tok, None)} :
       \E v3 \in {update_oauth_tokens(v2, id, Tok, Tok)} :
          /\ keychain' = v3.kc
          /\ mem' = v3.m
          /\ disk' = v3.d
    /\ kept' = kept \cup {id}
    /\ UNCHANGED vaults

\* remove_account: delete_credentials of the AccountManager's vault
ManagerDelete(id) ==
    /\ VaultStep
    /\ \E del \in {delete_credentials(VaultState(keychain, mem, disk), id, {})} :
          /\ keychain' = del.v.kc
          /\ mem' = del.v.m
          /\ disk' = del.v.d
          /\ kept' = IF del.ok THEN kept \ {id} ELSE kept
    /\ UNCHANGED vaults

\* GmailConnector(account_id) / HotmailConnector(account_id), built by
\* _get_connector: self.vault = CredentialVault() loads the file as it is now
BuildConnector(id) ==
    /\ VaultStep
    /\ ~GetConnectorRaises(mem, id)
    /\ vaults' = [vaults EXCEPT ![id] = [built |-> TRUE, m |-> disk]]
    /\ UNCHANGED <<keychain, mem, disk, kept>>

\* _refresh_token of the connector built for the account: update_oauth_tokens
\* on the connector's own vault when the token endpoint grants new tokens
ConnectorRefresh(id, granted) ==
    /\ VaultStep
    /\ vaults[id].built
    /\ \E r \in {RefreshToken(id, keychain, vaults[id].m,
                              [login |-> TRUE, expired |-> TRUE, refresh |-> granted,
                               closeRaises |-> FALSE])} :
          /\ keychain' = r.kc
          /\ vaults' = [vaults EXCEPT ![id].m = r.d]
          /\ disk' = IF r.ok THEN r.d ELSE disk
    /\ UNCHANGED <<mem, kept>>

InitVaults ==
    /\ NoAccounts /\ NoMail /\ NoSpamDetector /\ NoOAuth /\ NoRequests /\ NoIntel
    /\ NoLearners /\ NoAttempts /\ NoSessions /\ NoHandler
    /\ calls = 0
    /\ vaults = [id \in Accts |-> NoVault]
    /\ kept = {}

NextVaults ==
    \/ \E id \in Accts, provider \in OAuthProviders : ManagerStore(id, provider)
    \/ \E id \in Accts : ManagerDelete(id)
    \/ \E id \in Accts : BuildConnector(id)
    \/ \E id \in Accts, granted \in BOOLEAN : ConnectorRefresh(id, granted)

SpecVaults == InitVaults /\ [][NextVaults]_vars

\* C25: with the vault of the AccountManager and the vaults of the connectors
\* alive together, after any interleaving of store, update_oauth_tokens and
\* delete calls accounts.json holds exactly the accounts that were stored and
\* not deleted: no save drops an account added through another instance or
\* brings back one deleted through another instance.
C25_MetadataIsStoredMinusDeleted == list_accounts(disk) = kept

(***************************************************************************)
(* Claim about a failed add_account_password (under SpecAccounts)          *)
(***************************************************************************)
\* C26: an add_account_password that returns an error for an account the vault
\* already holds leaves the vault as it was: the secrets of the account in the
\* keychain and its metadata are what they were before the call, and no
\* connector stays cached for an account that is no longer in the vault.
C26_Step ==
    (ret'.op = "add_account_password" /\ ret'.status = "error"
       /\ HasAccount(mem, ret'.id)) =>
        /\ \A k \in Kinds : keychain'[<<ret'.id, k>>] = keychain[<<ret'.id, k>>]
        /\ mem'[ret'.id] = mem[ret'.id]
        /\ disk'[ret'.id] = disk[ret'.id]
        /\ active_connectors'[ret'.id] # NoInst => HasAccount(mem', ret'.id)

C26_FailedAddLeavesVault == [][C26_Step]_vars

(***************************************************************************)
(* start_authorization_flow called again while an earlier call is still in *)
(* its poll loop.  OAuth2CallbackHandler.auth_code and auth_error are      *)
(* class attributes, shared by every call of the process; port 8888 is     *)
(* held by one listener at a time.  The clock of an attempt is reduced to  *)
(* whether its deadline has passed.                                        *)
(***************************************************************************)
\* the number of start_authorization_flow calls of one run
MaxAttempts == 3

Attempts == 1..MaxAttempts

\* delivered: the redirect of this attempt has handed its code to do_GET
NoAttempt == [pc |-> "idle", listening |-> FALSE, expired |-> FALSE,
              delivered |-> FALSE, outcome |-> None]

AttemptStep ==
    UNCHANGED <<calls, acctVars, mailVars, spamVars, flow, requests, intelVars,
                learnVars, vaultVars, sessions, handled>>

\* the code of attempt a before its loop
StartAttempt(a, browserRaises) ==
    /\ attempts[a].pc = "idle"
    /\ callback' = NoCallback
    /\ IF listeners # {}
       THEN /\ attempts' = [attempts EXCEPT ![a].pc = "returned",
                                            ![a].outcome = "exception"]
            /\ listeners' = listeners
       ELSE /\ listeners' = {a}
            /\ attempts' = IF browserRaises
                           THEN [attempts EXCEPT ![a].pc = "returned",
                                                 ![a].listening = TRUE,
                                                 ![a].outcome = "exception"]
                           ELSE [attempts EXCEPT ![a].pc = "polling",
                                                 ![a].listening = TRUE]
    /\ AttemptStep

\* the browser of attempt a is redirected to localhost:8888 with a code or an
\* error while the attempt waits: do_GET of the listener
Redirect(a, code, error) ==
    /\ attempts[a].pc = "polling"
    /\ listeners # {}
    /\ callback' = IF code # None THEN [callback EXCEPT !.auth_code = code]
                   ELSE [callback EXCEPT !.auth_error = error]
    /\ attempts' = [attempts EXCEPT ![a].delivered = @ \/ code # None]
    /\ UNCHANGED listeners
    /\ AttemptStep

AttemptReturns(a, outcome) ==
    /\ attempts' = [attempts EXCEPT ![a].pc = "returned", ![a].outcome = outcome]
    /\ listeners' = listeners \ {a}

\* one pass of the loop of attempt a, or the code after the loop; `expires` is
\* whether the deadline passes during time.sleep(0.5)
PollAttempt(a, exchanged, expires) ==
    /\ attempts[a].pc = "polling"
    /\ IF ~attempts[a].expired
       THEN IF callback.auth_code # None
            THEN AttemptReturns(a, IF exchanged THEN "success" ELSE "exchange_failed")
            ELSE IF callback.auth_error # <<>>
                 THEN AttemptReturns(a, "denied")
                 ELSE /\ attempts' = [attempts EXCEPT ![a].expired = expires]
                      /\ listeners' = listeners
       ELSE AttemptReturns(a, "timeout")
    /\ UNCHANGED callback
    /\ AttemptStep

InitAttempts ==
    /\ NoAccounts /\ NoMail /\ NoSpamDetector /\ NoRequests /\ NoIntel /\ NoLearners
    /\ NoVaults /\ NoSessions /\ NoHandler
    /\ calls = 0
    /\ flow = NoFlow /\ callback = NoCallback /\ listeners = {}
    /\ attempts = [a \in Attempts |-> NoAttempt]

NextAttempts ==
    \/ \E a \in Attempts, browserRaises \in BOOLEAN : StartAttempt(a, browserRaises)
    \/ \E a \in Attempts : Redirect(a, "code", <<>>)
    \/ \E a \in Attempts, error \in AuthErrors : Redirect(a, None, error)
    \/ \E a \in Attempts, exchanged \in BOOLEAN, expires \in BOOLEAN :
          PollAttempt(a, exchanged, expires)

SpecAttempts == InitAttempts /\ [][NextAttempts]_vars

\* C27: a code captured by the listener is not lost: an attempt whose redirect
\* has delivered a code does not return the timeout, and the start of another
\* attempt while this one polls leaves the captured code and error in place.
C27_Step ==
    \A a \in Attempts :
        /\ (attempts[a].pc = "polling" /\ attempts[a].delivered) =>
               attempts'[a].outcome # "timeout"
        /\ \A b \in Attempts \ {a}, browserRaises \in BOOLEAN :
               (attempts[a].pc = "polling" /\ StartAttempt(b, browserRaises)) =>
                   callback' = callback

C27_CodeIsNotLost == [][C27_Step]_vars

(***************************************************************************)
(* The cached connectors across runs of EmailManager.ensure_folders_exist  *)
(* and setup_all_accounts.  A REST connector owns one httpx.Client, made   *)
(* in __init__ and closed by disconnect(); a request through a closed      *)
(* client raises.  The IMAP connectors open a new connection in connect(). *)
(***************************************************************************)
\* the number of EmailManager runs
MaxRuns == 3

\* client: the httpx.Client of the cached connector ("none" for IMAP);
\* ran: a run on this connector has connected and disconnected
NoSession == [client |-> "none", ran |-> FALSE]

NewClient(cls) == IF cls \in OAuthProviders THEN "open" ELSE "none"

\* the state a run works on
RunState == [kc |-> keychain, d |-> disk, active |-> active_connectors,
             next |-> nextInst, sessions |-> sessions, status |-> None, inst |-> NoInst]

\* connect() of the connector the cache holds for the account: _get_profile
\* sends its request through self.client and returns None when that raises
CachedConnect(st, id, cls, env) ==
    [Connect(cls, id, st.kc, st.d, env)
        EXCEPT !.ok = @ /\ st.sessions[id].client # "closed"]

\* get_connector(account_id) with the default cache=True
cached_connector(st, id) ==
    IF st.active[id] # NoInst THEN st
    ELSE [st EXCEPT !.active[id] = [inst |-> st.next, cls |-> ConnectorClass(mem, id)],
                    !.next = @ + 1,
                    !.sessions[id] = [client |-> NewClient(ConnectorClass(mem, id)),
                                      ran |-> FALSE]]

\* connector.connect(): "error" is the early return of ensure_folders_exist
connect_cached(st, id, env) ==
    [st EXCEPT !.kc = CachedConnect(st, id, st.active[id].cls, env).kc,
               !.d = CachedConnect(st, id, st.active[id].cls, env).d,
               !.inst = st.active[id],
               !.status = IF CachedConnect(st, id, st.active[id].cls, env).ok
                          THEN "connected" ELSE "error"]

\* connector.disconnect() after the folder work; an exception of close() ends
\* the run in the except branch
disconnect_cached(st, id, env) ==
    IF st.status = "error" \/ DisconnectRaises(st.active[id].cls, env)
    THEN [st EXCEPT !.status = "error"]
    ELSE [st EXCEPT !.status = "success",
                    !.sessions[id] =
                        [client |-> IF st.active[id].cls \in OAuthProviders
                                    THEN "closed" ELSE "none",
                         ran |-> TRUE]]

\* ensure_folders_exist(account_id): get_connector, connect, the folder work,
\* disconnect
ensure_folders_exist(st, id, env) ==
    IF st.active[id] = NoInst /\ GetConnectorRaises(mem, id)
    THEN [st EXCEPT !.status = "error"]
    ELSE disconnect_cached(connect_cached(cached_connector(st, id), id, env), id, env)

RunStep ==
    /\ calls < MaxRuns
    /\ calls' = calls + 1
    /\ UNCHANGED <<mem, mailVars, spamVars, oauthVars, requests, intelVars,
                   learnVars, vaultVars, attempts, handled>>

Ran(op, id, st) ==
    /\ keychain' = st.kc
    /\ disk' = st.d
    /\ active_connectors' = st.active
    /\ nextInst' = st.next
    /\ sessions' = st.sessions
    /\ ret' = [NoRet EXCEPT !.op = op, !.id = id, !.status = st.status,
                            !.inst = st.inst]

EnsureFoldersExistRun(id, env) ==
    /\ RunStep
    /\ \E st \in {ensure_folders_exist(RunState, id, env)} :
          Ran("ensure_folders_exist", id, st)

RECURSIVE setup_loop(_, _, _)
setup_loop(st, i, envs) ==
    IF i > Len(AcctOrder) THEN st
    ELSE IF ~HasAccount(mem, AcctOrder[i]) THEN setup_loop(st, i + 1, envs)
    ELSE setup_loop(ensure_folders_exist(st, AcctOrder[i], envs[AcctOrder[i]]),
                    i + 1, envs)

\* setup_all_accounts: ensure_folders_exist for every account of the vault; it
\* returns success whatever the accounts returned
SetupAllAccounts(envs) ==
    /\ RunStep
    /\ \E st \in {setup_loop(RunState, 1, envs)} :
          Ran("setup_all_accounts", None, [st EXCEPT !.status = "success"])

\* the provider answers and the credentials are good: the login or the profile
\* request is accepted, an expired token is refreshed, close() does not raise
Available == {e \in Env : e.login /\ (e.expired = e.refresh) /\ ~e.closeRaises}

\* a verified account of the provider, as add_account_password or
\* add_account_oauth leaves it
Configured(provider) ==
    IF provider \in OAuthProviders
    THEN [NoMeta EXCEPT !.provider = provider,
                        !.credential_types = <<"oauth_access_token", "oauth_refresh_token">>,
                        !.additional_data = ClientSecret, !.token_expiry = TRUE]
    ELSE [NoMeta EXCEPT !.provider = provider, !.credential_types = <<"app_password">>]

InitRuns ==
    /\ NoMail /\ NoSpamDetector /\ NoOAuth /\ NoRequests /\ NoIntel /\ NoLearners
    /\ NoVaults /\ NoAttempts /\ NoHandler
    /\ calls = 0
    /\ \E providers \in [Accts -> Providers] :
          /\ mem = [id \in Accts |-> Configured(providers[id])]
          /\ keychain = [k \in Accts \X Kinds |->
                           IF InSeq(k[2], mem[k[1]].credential_types)
                           THEN (IF k[2] = "app_password" THEN Password ELSE Tok)
                           ELSE None]
    /\ disk = mem
    /\ active_connectors = [id \in Accts |-> NoInst]
    /\ nextInst = 1
    /\ ret = NoRet
    /\ sessions = [id \in Accts |-> NoSession]

NextRuns ==
    \/ \E id \in Accts : \E env \in EnvFor(mem[id].provider) :
          EnsureFoldersExistRun(id, env)
    \/ \E envs \in [Accts -> Env] :
          /\ \A id \in Accts : envs[id] \in EnvFor(mem[id].provider)
          /\ SetupAllAccounts(envs)

SpecRuns == InitRuns /\ [][NextRuns]_vars

\* C28: a cached connector stays usable: on a connector that has connected and
\* disconnected in an earlier run, a later ensure_folders_exist of the same
\* account succeeds again when the credentials and the provider are as good as
\* before, whatever the connector variant.
C28_Step ==
    \A id \in Accts, env \in Available :
        (EnsureFoldersExistRun(id, env) /\ sessions[id].ran) => ret'.status = "success"

C28_CachedConnectorStaysUsable == [][C28_Step]_vars

(***************************************************************************)
(* PriorityEngine.learn_from_action followed by analyze_email.  The scores *)
(* the engine learns are kept exactly: a score is counted in units of      *)
(* 1 / Unit, and Unit is large enough for every division of the runs of    *)
(* the model to leave no remainder.                                        *)
(***************************************************************************)
\* the number of learn_from_action calls of one run
MaxLearnings == 2

\* one score point; a key is updated at most twice by a call
Unit == 10 ^ 7

\* action_scores.get(action, 0.0), in tenths
action_scores(action) ==
    CASE action = "opened_immediately" -> 30
      [] action = "starred" -> 25
      [] action = "replied_fast" -> 30
      [] action = "opened_within_hour" -> 15
      [] action = "opened_within_day" -> 5
      [] action = "ignored_week" -> -10
      [] action = "deleted_immediately" -> -20
      [] OTHER -> 0

\* the actions a caller reports; "archived" is not in action_scores
LearnedActions == {"opened_immediately", "deleted_immediately", "archived"}

\* a score that grows by the delta instead of being averaged with it
blend_adds(score, delta, keep) == score + delta

\* current["score"] * 0.8 + score_delta * 0.2 (keep = 8), or * 0.9 and * 0.1
blend(score, delta, keep) == (score * keep + delta * (10 - keep)) \div 10

NoEntry == [known |-> FALSE, score |-> 0, count |-> 0]

\* the entry of a key is created with score 5.0 and count 0, then updated
learn_entry(dict, key, score_delta, keep) ==
    [dict EXCEPT ![key] =
        [known |-> TRUE,
         score |-> blend(IF dict[key].known THEN dict[key].score ELSE 5 * Unit,
                         score_delta, keep),
         count |-> dict[key].count + 1]]

\* for keyword in keywords[:5] (a subject of the model has fewer words)
RECURSIVE learn_keywords(_, _, _, _)
learn_keywords(dict, subject, i, score_delta) ==
    IF i > Len(subject) THEN dict
    ELSE learn_keywords(IF IsKeyword(LowerWord(subject[i]))
                        THEN learn_entry(dict, LowerWord(subject[i]), score_delta, 9)
                        ELSE dict,
                        subject, i + 1, score_delta)

\* the response times of a sender: the last ten
learn_response_time(times, sender, action, time_to_action) ==
    IF time_to_action # NoAvg /\ action \in {"replied_fast", "opened_immediately"}
    THEN [times EXCEPT ![sender] = LastN(Append(@, time_to_action), 10)]
    ELSE times

\* learn_from_action(email, action, time_to_action)
learn_from_action(p, e, action, time_to_action) ==
    [senders |-> learn_entry(p.senders, LowerSender(e.from),
                             action_scores(action) * (Unit \div 10), 8),
     domains |-> IF DomainOf(LowerSender(e.from)) # ""
                 THEN learn_entry(p.domains, DomainOf(LowerSender(e.from)),
                                  action_scores(action) * (Unit \div 10), 9)
                 ELSE p.domains,
     keywords |-> learn_keywords(p.keywords, e.subject, 1,
                                 action_scores(action) * (Unit \div 10)),
     response_times |-> learn_response_time(p.response_times, LowerSender(e.from),
                                            action, time_to_action)]

RECURSIVE Sum(_, _)
Sum(s, i) == IF i > Len(s) THEN 0 ELSE s[i] + Sum(s, i + 1)

\* get_sender_insights(sender)
get_sender_insights(p, sender) ==
    IF ~p.senders[LowerSender(sender)].known
    THEN [known |-> FALSE, should_prioritize |-> FALSE,
          avg_response_time_seconds |-> NoAvg]
    ELSE [known |-> TRUE,
          should_prioritize |-> p.senders[LowerSender(sender)].score > 7 * Unit,
          avg_response_time_seconds |->
              IF p.response_times[LowerSender(sender)] = <<>> THEN NoAvg
              ELSE Sum(p.response_times[LowerSender(sender)], 1)
                       \div Len(p.response_times[LowerSender(sender)])]

\* (entry["score"] - 5.0) * weight / 10, in units of 1 / (10 * Unit)
LearnedContribution(entry, weight) ==
    IF entry.known THEN (entry.score - 5 * Unit) * weight ELSE 0

RECURSIVE learned_keyword_boost(_, _, _)
learned_keyword_boost(p, subject, i) ==
    IF i > Len(subject) THEN 0
    ELSE (IF IsKeyword(LowerWord(subject[i]))
          THEN LearnedContribution(p.keywords[LowerWord(subject[i])], 1)
          ELSE 0) + learned_keyword_boost(p, subject, i + 1)

\* the score before it is clamped, in units of 1 / (10 * Unit)
learned_raw_priority(p, e) ==
    50 * Unit
        + LearnedContribution(p.senders[LowerSender(e.from)], 4)
        + (IF DomainOf(LowerSender(e.from)) # ""
           THEN LearnedContribution(p.domains[DomainOf(LowerSender(e.from))], 2)
           ELSE 0)
        + learned_keyword_boost(p, e.subject, 1)
        + (IF HasWord(e.subject, "urgent") THEN 20 * Unit ELSE 0)
        + (IF HasWord(e.subject, "meeting") THEN 15 * Unit ELSE 0)
        + (IF e.subject # <<>> /\ LowerWord(e.subject[1]) = "re:" THEN 10 * Unit ELSE 0)

\* max(0.0, min(10.0, score)), in units of 1 / (10 * Unit)
LearnedClamp(score) ==
    IF score > 100 * Unit THEN 100 * Unit ELSE IF score < 0 THEN 0 ELSE score

\* calculate_priority on the learned patterns, in units of 1 / (10 * Unit)
learned_priority(p, e) == LearnedClamp(learned_raw_priority(p, e))

\* a priority in hundredths, rounded down: 8.0 is 800, and a priority is at
\* least 8.0 exactly when its hundredths are at least 800
Hundredths(score) == score \div (Unit \div 10)

\* the patterns of _load_patterns when there is no file
EmptyPatterns ==
    [senders |-> [s \in {LowerSender(a) : a \in Senders} |-> NoEntry],
     domains |-> [d \in {"corp.com"} |-> NoEntry],
     keywords |-> [k \in {w \in SubjectWords : IsKeyword(w)} |-> NoEntry],
     response_times |-> [s \in {LowerSender(a) : a \in Senders} |-> <<>>]]

\* the emails the engine learns from and analyses
LearnedSubjects == {<<>>, <<"Re:", "urgent">>, <<"offer", "offer">>}

LearnedEmails == [from : Senders, subject : LearnedSubjects]

\* time_to_action: None, or half an hour
TimesToAction == {NoAvg, 1800}

\* the flags of an email that may hold a calendar invite and nothing else
LearnedFlags ==
    {f \in ContentFlags :
        /\ ~f.has_meeting_request /\ ~f.requests_action
        /\ ~f.has_question /\ ~f.is_automated}

\* what the last call returned when it was not analyze_email
NoContext ==
    [analysed |-> FALSE, from |-> "", subject |-> <<>>, score |-> 0, priority |-> 0,
     content_flags |-> [has_meeting_request |-> FALSE, requests_action |-> FALSE,
                        has_calendar_invite |-> FALSE, has_question |-> FALSE,
                        is_automated |-> FALSE],
     sender_insights |-> [known |-> FALSE, should_prioritize |-> FALSE,
                          avg_response_time_seconds |-> NoAvg],
     recommended_action |-> None]

\* analyze_email up to context["recommended_action"]: what the call returns
analyze_email(p, e, flags) ==
    [NoContext EXCEPT
        !.analysed = TRUE, !.from = e.from, !.subject = e.subject,
        !.score = learned_priority(p, e),
        !.priority = Hundredths(learned_priority(p, e)),
        !.content_flags = flags,
        !.sender_insights = get_sender_insights(p, e.from),
        !.recommended_action =
            recommend_action([priority |-> Hundredths(learned_priority(p, e)),
                              content_flags |-> flags,
                              sender_insights |-> get_sender_insights(p, e.from)])]

PriorityLearn(e, action, time_to_action) ==
    /\ calls < MaxLearnings
    /\ calls' = calls + 1
    /\ patterns' = learn_from_action(patterns, e, action, time_to_action)
    /\ context' = NoContext
    /\ UNCHANGED <<email, priority, acctVars, mailVars, spamVars,
                   oauthVars, requests, learnVars, vaultVars, attempts, sessions,
                   handled>>

AnalyzeEmail(e, flags) ==
    /\ context' = analyze_email(patterns, e, flags)
    /\ UNCHANGED <<patterns, email, priority, calls, acctVars, mailVars, spamVars,
                   oauthVars, requests, learnVars, vaultVars, attempts, sessions,
                   handled>>

InitLearning ==
    /\ NoAccounts /\ NoMail /\ NoSpamDetector /\ NoOAuth /\ NoRequests /\ NoLearners
    /\ NoVaults /\ NoAttempts /\ NoSessions /\ NoHandler
    /\ calls = 0
    /\ patterns = EmptyPatterns
    /\ email = None /\ priority = None
    /\ context = NoContext

NextLearning ==
    \/ \E e \in LearnedEmails, action \in LearnedActions, t \in TimesToAction :
           PriorityLearn(e, action, t)
    \/ \E e \in LearnedEmails, flags \in LearnedFlags : AnalyzeEmail(e, flags)

SpecLearning == InitLearning /\ [][NextLearning]_vars

(***************************************************************************)
(* Claim about what the priority engine learns (under SpecLearning)        *)
(***************************************************************************)
\* every score of a dict lies between -2.0 and 5.0
ScoresWithin(dict) ==
    \A k \in DOMAIN dict :
        dict[k].known => (-2 * Unit <= dict[k].score /\ dict[k].score <= 5 * Unit)

\* C29: starting from empty patterns, after any sequence of learn_from_action
\* calls every stored sender, domain and keyword score lies between -2.0 and
\* 5.0; so the learned history never raises calculate_priority above what the
\* hard-coded cues alone give, get_sender_insights never reports
\* should_prioritize, and _recommend_action never returns respond_soon.
C29_LearnedScoresNeverPrioritize ==
    /\ ScoresWithin(patterns.senders)
    /\ ScoresWithin(patterns.domains)
    /\ ScoresWithin(patterns.keywords)
    /\ \A e \in LearnedEmails :
           /\ learned_priority(patterns, e) <= learned_priority(EmptyPatterns, e)
           /\ ~get_sender_insights(patterns, e.from).should_prioritize
    /\ context.analysed =>
           /\ context.score <= learned_priority(EmptyPatterns, context)
           /\ ~context.sender_insights.should_prioritize
           /\ context.recommended_action # "respond_soon"

\* C29 witness: an email was analysed whose sender has a learned score below
\* 5.0 and answers within the hour, and whose priority the history lowered
C29_Witness ==
    /\ context.analysed
    /\ context.sender_insights.known
    /\ patterns.senders[LowerSender(context.from)].score < 5 * Unit
    /\ context.sender_insights.avg_response_time_seconds = 1800
    /\ ~context.content_flags.has_calendar_invite
    /\ context.score < learned_priority(EmptyPatterns, context)
    /\ context.priority < 800
    /\ context.recommended_action = "review_later"

(***************************************************************************)
(* PriorityHandler.process_priority_email (server/services/               *)
(* priority_handler.py) with ResponseDrafter.draft_response.  A confidence *)
(* is counted in hundredths (0.95 is 95); the float sums of the code fall  *)
(* on the same side of 0.95 as these integers.                             *)
(***************************************************************************)
\* tone["samples"] on both sides of 5
ToneSamples == {0, 5, 6}

\* priority scores on both sides of 6.0 and of 8.0, in hundredths
HandledScores == PriorityScores \cup {599, 600}

\* min(0.99, confidence)
Capped(confidence) == IF confidence > 99 THEN 99 ELSE confidence

\* a confidence that starts at 0.9
calculate_confidence_eager(c, samples) ==
    Capped(90 + (IF samples > 5 THEN 10 ELSE 0)
                + (IF c.sender_insights.known THEN 10 ELSE 0)
                + (IF c.priority < 600 THEN 5 ELSE 0))

\* _calculate_confidence(context, tone)
calculate_confidence(c, samples) ==
    Capped(70 + (IF samples > 5 THEN 10 ELSE 0)
                + (IF c.sender_insights.known THEN 10 ELSE 0)
                + (IF c.priority < 600 THEN 5 ELSE 0))

\* draft_response: an error when anything in it raises, else the draft
draft_response(c, samples, raises) ==
    IF raises
    THEN [status |-> "error", confidence |-> 0, auto_send_recommended |-> FALSE]
    ELSE [status |-> "success", confidence |-> calculate_confidence(c, samples),
          auto_send_recommended |-> calculate_confidence(c, samples) >= 95]

\* nothing processed yet
NoHandled ==
    [done |-> FALSE, recommended_action |-> None, actions_taken |-> <<>>,
     status |-> None, confidence |-> 0, sent |-> 0]

\* process_priority_email, after analyze_email recommended an action
process_priority_email(action, draft) ==
    [done |-> TRUE,
     recommended_action |-> action,
     actions_taken |->
         IF action = "respond_immediately"
         THEN IF draft.status = "success" /\ draft.auto_send_recommended
              THEN <<"auto_replied">>
              ELSE <<"drafted_reply">>
         ELSE IF action = "schedule_meeting" THEN <<"meeting_workflow_triggered">>
         ELSE <<>>,
     status |-> IF action = "respond_immediately" THEN draft.status ELSE None,
     confidence |-> IF action = "respond_immediately" THEN draft.confidence ELSE 0,
     sent |-> IF action = "respond_immediately" /\ draft.status = "success"
                 /\ draft.auto_send_recommended
              THEN 1 ELSE 0]

ProcessPriorityEmail(samples, raises) ==
    /\ ~handled.done
    /\ context' = [context EXCEPT !.recommended_action = recommend_action(context)]
    /\ handled' = process_priority_email(recommend_action(context),
                                         draft_response(context, samples, raises))
    /\ UNCHANGED <<patterns, email, priority, calls, acctVars, mailVars, spamVars,
                   oauthVars, requests, learnVars, vaultVars, attempts, sessions>>

InitHandler ==
    /\ NoAccounts /\ NoMail /\ NoSpamDetector /\ NoOAuth /\ NoRequests /\ NoLearners
    /\ NoVaults /\ NoAttempts /\ NoSessions
    /\ calls = 0
    /\ patterns = None /\ email = None /\ priority = None
    /\ context \in [priority : HandledScores, content_flags : ContentFlags,
                    sender_insights : SenderInsights, recommended_action : {None}]
    /\ handled = NoHandled

NextHandler == \E samples \in ToneSamples, raises \in BOOLEAN :
                   ProcessPriorityEmail(samples, raises)

SpecHandler == InitHandler /\ [][NextHandler]_vars

(***************************************************************************)
(* Claim about the priority handler (under SpecHandler)                    *)
(***************************************************************************)
\* C30: process_priority_email never sends mail on its own: send_email is
\* reached only with recommended_action = respond_immediately (priority at
\* least 8.0) and a draft confidence of at least 0.95, and for a priority of
\* at least 8.0 the confidence is at most 0.9; so every such email ends with
\* a drafted_reply action and never with an auto_replied action.
C30_NeverSendsOnItsOwn ==
    handled.done =>
        /\ handled.sent = 0
        /\ handled.actions_taken # <<"auto_replied">>
        /\ handled.recommended_action = "respond_immediately" =>
               /\ context.priority >= 800
               /\ handled.actions_taken = <<"drafted_reply">>
               /\ handled.status = "success" => handled.confidence <= 90

\* C30 witness: an urgent request for action from a known sender, answered
\* in a well-learned tone, was drafted with confidence 0.9 and not sent
C30_Witness ==
    /\ handled.done
    /\ handled.recommended_action = "respond_immediately"
    /\ handled.status = "success"
    /\ handled.confidence = 90
    /\ handled.actions_taken = <<"drafted_reply">>
    /\ handled.sent = 0

====
